---- MODULE Spec2Model ----
(***************************************************************************)
(* Multi-pass stencil shadow-volume renderer (Scene::Draw and friends).    *)
(*                                                                         *)
(* The model follows one pixel of the bound framebuffer through the passes *)
(* of Scene::Draw.  The OpenGL pipeline state the passes set is a record   *)
(* (gl), the pixel holds a depth, a stencil and the colour contributions   *)
(* blended into it, and the commands of the pass that ran last are kept    *)
(* together with the pipeline state they were issued under (cmds).  Each   *)
(* draw call carries the uniforms UpdateProgramData wrote for it; the      *)
(* writes of the uniform buffers of a call are kept in bufferLog.  A frame *)
(* of renderScene captures the depth map of every spot light with          *)
(* Scene::DrawDepthSingleSpotLight.                                        *)
(*                                                                         *)
(* Depths are integers: visible surfaces lie on the even depths, faces of  *)
(* shadow volumes on the odd depths, the cleared depth is the far plane.   *)
(* Fragments are those of filled polygons; the pixel is not under the      *)
(* point sprite that marks a light.                                        *)
(*                                                                         *)
(* A second specification, AppSpec, follows the program around the scene:  *)
(* main, the iterations of mainLoop with the callbacks glfwPollEvents      *)
(* delivers, Scene::Update on the Light Store, the render targets the      *)
(* create functions make and delete, shutDown and the destructor of the    *)
(* Scene.  Angles are counted in quarter turns, which makes the Lissajous  *)
(* curve of the lights exact on integers.                                  *)
(***************************************************************************)
EXTENDS Integers, Sequences, FiniteSets, TLC

\* ---- bounds of the model ----
MaxCubes == 1
MaxPointLights == 2
MaxSpotLights == 1
NumLayers == 2

\* ---- program constants ----
\* the stencil mask 0xff of glStencilFunc: stencil values are 8 bit wide, the
\* wrapping operations are modulo StencilMask + 1
StencilMask == 255
StencilMod == StencilMask + 1
MSAA_SAMPLES == 1
\* capacity of the instance array and of the instance buffer of the shaders
MAX_INSTANCES == 1024

\* the depths of the fragments a draw produces at the pixel: none, or one
NoFragment == {}
SurfaceDepths == {2 * k : k \in 1..NumLayers}
FragmentsAt == {{d} : d \in SurfaceDepths} \cup {NoFragment}
FragmentDepth(f) == CHOOSE z \in f : TRUE
FaceDepths == {2 * k - 1 : k \in 1..(NumLayers + 1)}
DepthClear == 2 * NumLayers + 2

AllOn == <<TRUE, TRUE, TRUE, TRUE>>
AllOff == <<FALSE, FALSE, FALSE, FALSE>>
KeepAll == <<"KEEP", "KEEP", "KEEP">>
NoLight == [kind |-> "none", idx |-> 0]
PointLight(i) == [kind |-> "point", idx |-> i]
SpotLight(i) == [kind |-> "spot", idx |-> i]

VARIABLES
  vao,              \* Scene::_vao != 0
  numCubes,         \* Scene::_numCubes
  numPointLights,   \* Scene::_numPointLights
  numSpotLights,    \* Scene::_numSpotLights
  renderMode,       \* argument of the running call of Draw
  carmackReverse,   \* argument of the running call of Draw
  gl,               \* OpenGL pipeline state
  px,               \* one pixel of the bound framebuffer
  frag,             \* fragments the scene geometry produces at that pixel
  shadow,           \* the shadow volumes of the current light at that pixel
  pc,               \* position inside Scene::Draw
  li,               \* loop index i of the light loops
  op,               \* the call the logs belong to
  passLog,          \* passes issued by the call
  primed,           \* depth of the pixel when the depth prime of the call ended
  cmds,             \* clears and draw calls of the last pass, with their pipeline state
  bufferLog,        \* writes of the uniform buffers made by the call
  depthMap,         \* the pixel of the spot-light depth map, for the running frame
  frame,            \* counters of the running call of renderScene
  objects,          \* what Scene::Init has created: array lengths and GPU objects
  lights,           \* the Light Store: _pointLights, _spotLights and the clock t of Update
  twin,             \* the Light Store of a second run, given the same movements and dt
  app,              \* the program around the scene: main, mainLoop, the callbacks
  targets           \* the render targets: object names held by the globals, live objects

vars == <<vao, numCubes, numPointLights, numSpotLights, renderMode, carmackReverse,
          gl, px, frag, shadow, pc, li, op, passLog, primed, cmds, bufferLog,
          depthMap, frame, objects, lights, twin, app, targets>>

\* the state the program keeps outside Scene::Draw and the frame of renderScene
hostVars == <<app, targets>>

\* the Light Store of the run and of its twin
lightVars == <<lights, twin>>

sceneVars == <<vao, numCubes, numPointLights, numSpotLights>>

\* ---- OpenGL semantics used by the passes ----

\* State of a fresh context (initOpenGL changes none of these)
GLDefault ==
  [depthTest |-> FALSE, depthFunc |-> "LESS", depthMask |-> TRUE, depthClamp |-> FALSE,
   colorMask |-> AllOn, cullFace |-> FALSE, cullMode |-> "BACK",
   polygonMode |-> "FILL", multisample |-> TRUE,
   stencilTest |-> FALSE, stencilFunc |-> "ALWAYS", stencilRef |-> 0, stencilMask |-> StencilMask,
   stencilOpFront |-> KeepAll, stencilOpBack |-> KeepAll,
   blend |-> FALSE, blendEq |-> "ADD", blendSrc |-> "ONE", blendDst |-> "ZERO",
   uniformSlot0 |-> "none", uniformSlot1 |-> "none"]

\* the colour of the pixel is the set of light contributions summed into it
PixelDefault == [depth |-> DepthClear, stencil |-> 0, colour |-> {}]

\* glStencilFunc comparison: ref against the stored value, both masked
StencilCompare(g, s) ==
  CASE g.stencilFunc = "ALWAYS" -> TRUE
    [] g.stencilFunc = "EQUAL" -> (g.stencilRef % (g.stencilMask + 1)) = (s % (g.stencilMask + 1))
    [] OTHER -> FALSE

\* glDepthFunc comparison: incoming depth z against the stored depth d
DepthCompare(g, z, d) ==
  CASE g.depthFunc = "LEQUAL" -> z <= d
    [] g.depthFunc = "LESS" -> z < d
    [] OTHER -> FALSE

\* faulty variant of StencilOpApply: the wrapping operations saturate
StencilOpApplySaturating(o, s) ==
  CASE o = "KEEP" -> s
    [] o \in {"INCR", "INCR_WRAP"} -> IF s + 1 < StencilMod THEN s + 1 ELSE s
    [] o \in {"DECR", "DECR_WRAP"} -> IF s > 0 THEN s - 1 ELSE s
    [] OTHER -> s

\* one stencil operation
StencilOpApply(o, s) ==
  CASE o = "KEEP" -> s
    [] o = "INCR_WRAP" -> (s + 1) % StencilMod
    [] o = "DECR_WRAP" -> (s + StencilMod - 1) % StencilMod
    [] o = "INCR" -> IF s + 1 < StencilMod THEN s + 1 ELSE s
    [] o = "DECR" -> IF s > 0 THEN s - 1 ELSE s
    [] OTHER -> s

\* stencil test, depth test, stencil update, depth write and blending of one
\* fragment f = [z, facing, src] on pixel p under pipeline state g
ProcessFragment(g, p, f) ==
  LET ops == IF f.facing = "BACK" THEN g.stencilOpBack ELSE g.stencilOpFront
      sPass == (~g.stencilTest) \/ StencilCompare(g, p.stencil)
      dPass == (~g.depthTest) \/ DepthCompare(g, f.z, p.depth)
      sOp == IF ~sPass THEN ops[1] ELSE IF ~dPass THEN ops[2] ELSE ops[3]
      alive == sPass /\ dPass
  IN [depth |-> IF alive /\ g.depthTest /\ g.depthMask THEN f.z ELSE p.depth,
      stencil |-> IF g.stencilTest THEN StencilOpApply(sOp, p.stencil) ELSE p.stencil,
      colour |-> IF alive /\ g.colorMask # AllOff
                 THEN (IF g.blend /\ g.blendSrc = "ONE" /\ g.blendDst = "ONE"
                       THEN p.colour \cup {f.src} ELSE {f.src})
                 ELSE p.colour]

RECURSIVE ProcessFragments(_, _, _)
ProcessFragments(g, p, fs) ==
  IF fs = <<>> THEN p ELSE ProcessFragments(g, ProcessFragment(g, p, Head(fs)), Tail(fs))

\* glClear of the named buffers: depth honours the depth mask, colour the colour mask
Clear(g, p, bits) ==
  [depth |-> IF "DEPTH" \in bits /\ g.depthMask THEN DepthClear ELSE p.depth,
   stencil |-> IF "STENCIL" \in bits THEN 0 ELSE p.stencil,
   colour |-> IF "COLOR" \in bits /\ g.colorMask # AllOff THEN {} ELSE p.colour]


\* ---- scene geometry as seen at the pixel ----

\* Depths at which the view ray of the pixel crosses the boundary of the shadow
\* volume of one occluder: the volume of a convex occluder is crossed at most
\* twice (entry and exit); one crossing means the eye is inside the volume.
VolumeHits == {F \in SUBSET FaceDepths : Cardinality(F) <= 2}

\* The volume is closed and the ray ends outside it: counted from the far end the
\* crossings are exit (back face), entry (front face), exit, ...
FaceFacing(F, z) ==
  IF Cardinality({y \in F : y >= z}) % 2 = 1 THEN "BACK" ELSE "FRONT"

\* a point at depth d is inside the volume iff the ray leaves the volume an odd
\* number of times behind it
InsideVolume(F, d) == Cardinality({y \in F : y > d}) % 2 = 1

EyeInsideVolume(F) == Cardinality(F) % 2 = 1

\* what the shadow volumes vol (one set of crossings per occluder) mean for the
\* point visible at depth d
\* phase: which pass of the light ran last; cleared: the stencil the
\* shadow-volume pass started from; stencil, colour: the pixel as the
\* shadow-volume pass left it; other: the stencil the other algorithm gives;
\* faces: the faces the algorithm counts up (incr) and down (decr), whatever
\* the order they are rasterized in, kept until the next pass runs
NoShadow ==
  [phase |-> "none", light |-> 0, inside |-> 0, eyeInside |-> FALSE,
   cleared |-> 0, stencil |-> 0, other |-> 0,
   faces |-> [incr |-> 0, decr |-> 0], colour |-> {}]

InsideCount(vol, d) == Cardinality({k \in DOMAIN vol : InsideVolume(vol[k], d)})

EyeInsideAny(vol) == \E k \in DOMAIN vol : EyeInsideVolume(vol[k])

\* occluders are interchangeable: one representative per multiset of crossings
Weight(F) == Cardinality(F) * (2 * DepthClear * DepthClear) +
             (IF F = {} THEN 0 ELSE
              LET lo == CHOOSE x \in F : \A y \in F : x <= y
                  hi == CHOOSE x \in F : \A y \in F : y <= x
              IN lo * DepthClear + hi)

Volumes(n) ==
  {v \in [1..n -> VolumeHits] : \A k \in 1..(n - 1) : Weight(v[k]) <= Weight(v[k + 1])}

RECURSIVE Ascending(_)
Ascending(S) ==
  IF S = {} THEN <<>>
  ELSE LET m == CHOOSE x \in S : \A y \in S : x <= y
       IN <<m>> \o Ascending(S \ {m})

RECURSIVE Reverse(_)
Reverse(q) == IF q = <<>> THEN <<>> ELSE Append(Reverse(Tail(q)), Head(q))

\* the order in which the faces of a volume reach the pixel is not fixed
FaceOrders == {"NEAR_FIRST", "FAR_FIRST"}

\* the faces of the volumes vol the stencil operations count at a pixel whose
\* depth buffer holds d: the depth-fail algorithm (cr) counts the faces behind
\* d, back faces up and front faces down; the depth-pass algorithm counts the
\* faces in front of d, front faces up and back faces down
CountedFaces(vol, n, d, cr) ==
  LET all == UNION {{<<k, z>> : z \in vol[k]} : k \in 1..n}
      counted == {f \in all : IF cr THEN f[2] > d ELSE f[2] <= d}
      up == {f \in counted : FaceFacing(vol[f[1]], f[2]) = (IF cr THEN "BACK" ELSE "FRONT")}
  IN [incr |-> Cardinality(up), decr |-> Cardinality(counted \ up)]

\* fragments of the shadow-volume faces of one occluder, in primitive order
VolumeFragments(F, order, src) ==
  LET asc == Ascending(F)
      zs == IF order = "NEAR_FIRST" THEN asc ELSE Reverse(asc)
  IN [k \in 1..Len(zs) |-> [z |-> zs[k], facing |-> FaceFacing(F, zs[k]), src |-> src]]

\* the instances are rasterized in instance order
RECURSIVE AllVolumeFragments(_, _, _, _)
AllVolumeFragments(vol, n, order, src) ==
  IF n = 0 THEN <<>>
  ELSE AllVolumeFragments(vol, n - 1, order, src) \o VolumeFragments(vol[n], order, src)

\* face culling drops back-facing fragments when enabled with mode BACK
Rasterized(g, fs) ==
  SelectSeq(fs, LAMBDA f : ~(g.cullFace /\ g.cullMode = "BACK" /\ f.facing = "BACK"))

\* depth of the surface visible at the pixel (the far plane when nothing covers it)
VisibleDepth(fr) ==
  LET c == fr.bg \cup fr.obj
  IN IF c = {} THEN DepthClear ELSE CHOOSE x \in c : \A y \in c : x <= y

\* ---- draw submission ----

\* faulty variant of InstanceCount: at least one instance is drawn
InstanceCountAtLeastOne == IF numCubes = 0 THEN 1 ELSE numCubes

\* the instance count DrawObjects hands to glDrawElementsInstanced
InstanceCount == numCubes

\* the instances that can cover the pixel
CubesAtPixel == IF InstanceCount > MaxCubes THEN MaxCubes ELSE InstanceCount

\* enum class RenderPass: the tags and their combinations, as bit sets
RenderPass ==
  [DepthPass |-> 1, ShadowVolume |-> 2, DirectLight |-> 4, AmbientLight |-> 8,
   ShadowMap |-> 16, LightPass |-> 12, ShadowPass |-> 18]

\* the operators & and | of the unsigned values of the enum
RECURSIVE BitAnd(_, _)
BitAnd(a, b) ==
  IF a = 0 \/ b = 0 THEN 0
  ELSE (a % 2) * (b % 2) + 2 * BitAnd(a \div 2, b \div 2)

BitOr(a, b) == a + b - BitAnd(a, b)

\* the float values 0.0f and 1.0f, and the ambient intensity 1e-3f / numPointLights
\* every light gets as the fourth component of its colour
Float0 == [milli |-> 0, per |-> 1]
Float1 == [milli |-> 1000, per |-> 1]
AmbientIntensity == [milli |-> 1, per |-> numPointLights]

\* the element of _pointLights or _spotLights a light tag names; the depth pass
\* passes zero vectors for the light it does not have
LightSource(light) ==
  [position |-> [positionOf |-> light],
   color |-> [rgb |-> [rgbOf |-> light],
              w |-> IF light.kind = "none" THEN Float0 ELSE AmbientIntensity]]

\* faulty variant of UpdateProgramData: the direct flag is derived from the
\* ambient tag and the ambient intensity from the direct tag
UpdateProgramDataTagsSwapped(pass, lightPosition, lightColor) ==
  [lightPosWS |->
     IF BitAnd(RenderPass[pass], BitOr(RenderPass.ShadowPass, RenderPass.LightPass)) # 0
     THEN <<[xyz |-> lightPosition,
             w |-> IF BitAnd(RenderPass[pass], RenderPass.AmbientLight) # 0 THEN Float1 ELSE Float0]>>
     ELSE <<>>,
   viewPosWS |->
     IF BitAnd(RenderPass[pass], RenderPass.LightPass) # 0 THEN <<"camera.position">> ELSE <<>>,
   lightColor |->
     IF BitAnd(RenderPass[pass], RenderPass.LightPass) # 0
     THEN <<[rgb |-> lightColor.rgb,
             w |-> IF BitAnd(RenderPass[pass], RenderPass.DirectLight) # 0 THEN lightColor.w ELSE Float0]>>
     ELSE <<>>]

\* Scene::UpdateProgramData: the uniforms it writes, each as the sequence of the
\* values written (empty when the uniform is not touched)
UpdateProgramData(pass, lightPosition, lightColor) ==
  [lightPosWS |->
     IF BitAnd(RenderPass[pass], BitOr(RenderPass.ShadowPass, RenderPass.LightPass)) # 0
     THEN <<[xyz |-> lightPosition,
             w |-> IF BitAnd(RenderPass[pass], RenderPass.DirectLight) # 0 THEN Float1 ELSE Float0]>>
     ELSE <<>>,
   viewPosWS |->
     IF BitAnd(RenderPass[pass], RenderPass.LightPass) # 0 THEN <<"camera.position">> ELSE <<>>,
   lightColor |->
     IF BitAnd(RenderPass[pass], RenderPass.LightPass) # 0
     THEN <<[rgb |-> lightColor.rgb,
             w |-> IF BitAnd(RenderPass[pass], RenderPass.AmbientLight) # 0 THEN lightColor.w ELSE Float0]>>
     ELSE <<>>]

\* the uniforms of the PointRendering program DrawObjects writes for the marker
MarkerProgramData(lightPosition, lightColor) ==
  [position |-> <<lightPosition>>, color |-> <<lightColor.rgb>>]

\* faulty variant of ObjectsGeometry: the standard cube in every pass
ObjectsGeometryStandard(pass) == [mesh |-> "_cube", mode |-> "GL_TRIANGLES"]

\* the mesh Scene::DrawObjects binds and the topology it draws it with
ObjectsGeometry(pass) ==
  IF BitAnd(RenderPass[pass], RenderPass.ShadowVolume) # 0
  THEN [mesh |-> "_cubeAdjacency", mode |-> "GL_TRIANGLES_ADJACENCY"]
  ELSE [mesh |-> "_cube", mode |-> "GL_TRIANGLES"]

\* the vertex array and topology of a draw call: the quad of DrawBackground,
\* the cubes of DrawObjects, the single point of the light marker
Geometry(call, pass) ==
  CASE call = "DrawObjects" -> ObjectsGeometry(pass)
    [] call = "Marker" -> [mesh |-> "_vao", mode |-> "GL_POINTS"]
    [] OTHER -> [mesh |-> "_quad", mode |-> "GL_TRIANGLES"]

DrawCmd(g, call, program, pass, light) ==
  [cmd |-> "draw", call |-> call, program |-> program, pass |-> pass, light |-> light,
   bits |-> {}, gl |-> g,
   geometry |-> Geometry(call, pass),
   instances |-> IF call = "DrawObjects" THEN <<InstanceCount>> ELSE <<>>,
   uniforms |-> IF call = "Marker"
                THEN MarkerProgramData(LightSource(light).position, LightSource(light).color)
                ELSE UpdateProgramData(pass, LightSource(light).position, LightSource(light).color)]

ClearCmd(g, bits) ==
  [cmd |-> "clear", call |-> "glClear", program |-> "none", pass |-> "none", light |-> NoLight,
   bits |-> bits, gl |-> g]

\* Scene::DrawBackground: floor and two walls, non-instanced
DrawBackground(g, p, fr, pass, light) ==
  IF fr.bg = NoFragment THEN p
  ELSE ProcessFragments(g, p,
         Rasterized(g, <<[z |-> FragmentDepth(fr.bg), facing |-> "FRONT", src |-> [pass |-> pass, light |-> light]]>>))

\* Scene::DrawObjects: the instanced cubes; in the shadow-volume pass the
\* adjacency cube, extruded to shadow-volume faces
DrawObjects(g, p, fr, n, pass, light, order) ==
  IF ObjectsGeometry(pass).mode = "GL_TRIANGLES_ADJACENCY"
  THEN ProcessFragments(g, p,
         Rasterized(g, AllVolumeFragments(fr.vol, n, order, [pass |-> pass, light |-> light])))
  ELSE IF n = 0 \/ fr.obj = NoFragment THEN p
  ELSE ProcessFragments(g, p,
         Rasterized(g, <<[z |-> FragmentDepth(fr.obj), facing |-> "FRONT", src |-> [pass |-> pass, light |-> light]]>>))

\* glBindBufferBase(GL_UNIFORM_BUFFER, 1, _instancingBuffer)
BindInstancingBuffer(g) == [g EXCEPT !.uniformSlot1 = "instancingBuffer"]

\* faulty variant of UnbindInstancingBuffer: slot 1 is left bound
UnbindInstancingBufferSkipped(g) == g

\* glBindBufferBase(GL_UNIFORM_BUFFER, 1, 0)
UnbindInstancingBuffer(g) == [g EXCEPT !.uniformSlot1 = "none"]

\* pipeline state DrawObjects leaves behind: slot 1 is unbound after the
\* instanced draw, blending is switched off for the marker
DrawObjectsState(g, pass) ==
  LET u == UnbindInstancingBuffer(BindInstancingBuffer(g))
  IN IF BitAnd(RenderPass[pass], RenderPass.AmbientLight) # 0 THEN [u EXCEPT !.blend = FALSE] ELSE u

\* faulty variant of DrawObjectsLog: the marker is drawn in every pass, under
\* the blending of the pass
DrawObjectsLogMarkerAlways(g, program, pass, light) ==
  <<DrawCmd(BindInstancingBuffer(g), "DrawObjects", program, pass, light),
    DrawCmd(UnbindInstancingBuffer(BindInstancingBuffer(g)), "Marker", "PointRendering", pass, light)>>

\* the draw calls of Scene::DrawObjects: the instanced cubes, and in a pass whose
\* tag contains AmbientLight the marker of the light
DrawObjectsLog(g, program, pass, light) ==
  <<DrawCmd(BindInstancingBuffer(g), "DrawObjects", program, pass, light)>> \o
  (IF BitAnd(RenderPass[pass], RenderPass.AmbientLight) # 0
   THEN <<DrawCmd(DrawObjectsState(g, pass), "Marker", "PointRendering", pass, light)>>
   ELSE <<>>)

\* ---- writes of the uniform buffers ----
\* Each write is logged with the number of draw calls the call had issued before it.

\* Scene::UpdateTransformBlock(camera)
UpdateTransformBlock(draws) ==
  [buffer |-> "transformBlockUBO", draws |-> draws,
   worldToView |-> [of |-> "camera"],
   projection |-> [of |-> "camera"]]

\* Scene::UpdateInstanceData: the entries it computes and copies, the capacity of
\* the array and of the buffer it copies them to, and the binding of slot 1
\* while the buffer is mapped
UpdateInstanceData(g, draws) ==
  [buffer |-> "instancingBuffer", draws |-> draws,
   entries |-> numCubes, capacity |-> MAX_INSTANCES,
   uniformSlot0 |-> BindInstancingBuffer(g).uniformSlot0,
   uniformSlot1 |-> BindInstancingBuffer(g).uniformSlot1]

\* Scene::UpdateTransformBlockSingleSpotLight(light): the look-at view of the
\* spot light and the fixed perspective projection of the shadow map
UpdateTransformBlockSingleSpotLight(light, draws) ==
  [buffer |-> "transformBlockUBO", draws |-> draws,
   worldToView |-> [of |-> "lookAt",
                    eye |-> LightSource(SpotLight(light)).position,
                    center |-> [sum |-> <<LightSource(SpotLight(light)).position,
                                          [directionOf |-> SpotLight(light)]>>],
                    up |-> <<0, 1, 0>>],
   projection |-> [of |-> "perspective", fovDegrees |-> 45,
                   aspect |-> [width |-> 1024, height |-> 1024],
                   near |-> [milli |-> 100, per |-> 1],
                   far |-> [milli |-> 1000100, per |-> 1]]]

\* pipeline state UpdateInstanceData leaves behind
UpdateInstanceDataState(g) == UnbindInstancingBuffer(BindInstancingBuffer(g))

\* faulty variant of DrawBufferWrites: the transform block is written again after
\* the clear and the draws of the depth prime
DrawBufferWritesTransformLate(g) ==
  <<UpdateTransformBlock(0), UpdateInstanceData(g, 0), UpdateTransformBlock(3)>>

\* the buffer writes of Scene::Draw: its first statement, and the instance data
\* before the pipeline state is set
DrawBufferWrites(g) == <<UpdateTransformBlock(0), UpdateInstanceData(g, 0)>>

\* the buffer writes of Scene::DrawDepthSingleSpotLight: the transform block of
\* the light first, the instance data before the pipeline state is set
SpotLightBufferWrites(g, light) ==
  <<UpdateTransformBlockSingleSpotLight(light, 0), UpdateInstanceData(g, 0)>>

\* ---- the pass lambdas of Scene::Draw ----
\* Each lambda is given by the pipeline state it sets before its draws, the
\* draw calls it issues, their effect on the pixel and the state it leaves.

\* faulty variant of DepthPassCmds: the objects are drawn with the combined tag
DepthPassCmdsCombinedTag(g) ==
  <<DrawCmd(g, "DrawBackground", "DefaultDepthPass", "DepthPass", NoLight)>> \o
  DrawObjectsLog(g, "InstancingDepthPass", "ShadowPass", NoLight)

\* depthPass: background then objects, with the depth-only programs
DepthPassCmds(g) ==
  <<DrawCmd(g, "DrawBackground", "DefaultDepthPass", "DepthPass", NoLight)>> \o
  DrawObjectsLog(g, "InstancingDepthPass", "DepthPass", NoLight)

DepthPassPixel(g, p, fr, n) ==
  DrawObjects(g, DrawBackground(g, p, fr, "DepthPass", NoLight), fr, n, "DepthPass", NoLight, "NEAR_FIRST")

\* faulty variant of LightPassState: glStencilFunc is not called, the function
\* of the shadow-volume pass stays in force
LightPassStateNoStencilFunc(g) ==
  [g EXCEPT !.blend = TRUE, !.blendEq = "ADD", !.blendSrc = "ONE", !.blendDst = "ONE",
            !.stencilOpFront = KeepAll, !.stencilOpBack = KeepAll]

\* lightPass: additive blending, stencil EQUAL 0, no stencil update
LightPassState(g) ==
  [g EXCEPT !.blend = TRUE, !.blendEq = "ADD", !.blendSrc = "ONE", !.blendDst = "ONE",
            !.stencilFunc = "EQUAL", !.stencilRef = 0, !.stencilMask = StencilMask,
            !.stencilOpFront = KeepAll, !.stencilOpBack = KeepAll]

\* lightPass: background then objects with the lit programs
LightPassCmds(g, pass, light) ==
  <<DrawCmd(g, "DrawBackground", "Default", pass, light)>> \o
  DrawObjectsLog(g, "Instancing", pass, light)

LightPassPixel(g, p, fr, n, pass, light) ==
  DrawObjects(g, DrawBackground(g, p, fr, pass, light), fr, n, pass, light, "NEAR_FIRST")

\* faulty variant of LightPassEnd: blending is left as the draws left it
LightPassEndBlendLeftOn(g, pass) == DrawObjectsState(g, pass)

\* lightPass: blending is disabled after the pass
LightPassEnd(g, pass) == [DrawObjectsState(g, pass) EXCEPT !.blend = FALSE]

\* faulty variant of ShadowVolumePassState: the depth-pass operations are set
\* with glStencilOp, the same for both faces
ShadowVolumePassStateOneSided(g, cr) ==
  IF cr
  THEN [g EXCEPT !.cullFace = FALSE,
                 !.stencilFunc = "ALWAYS", !.stencilRef = 0, !.stencilMask = StencilMask,
                 !.stencilOpBack = <<"KEEP", "INCR_WRAP", "KEEP">>,
                 !.stencilOpFront = <<"KEEP", "DECR_WRAP", "KEEP">>]
  ELSE [g EXCEPT !.cullFace = FALSE,
                 !.stencilFunc = "ALWAYS", !.stencilRef = 0, !.stencilMask = StencilMask,
                 !.stencilOpBack = <<"KEEP", "KEEP", "INCR_WRAP">>,
                 !.stencilOpFront = <<"KEEP", "KEEP", "INCR_WRAP">>]

\* faulty variant of ShadowVolumePassState: the faces of the depth-fail
\* operations are exchanged
ShadowVolumePassStateDepthFailSwapped(g, cr) ==
  IF cr
  THEN [g EXCEPT !.cullFace = FALSE,
                 !.stencilFunc = "ALWAYS", !.stencilRef = 0, !.stencilMask = StencilMask,
                 !.stencilOpBack = <<"KEEP", "DECR_WRAP", "KEEP">>,
                 !.stencilOpFront = <<"KEEP", "INCR_WRAP", "KEEP">>]
  ELSE [g EXCEPT !.cullFace = FALSE,
                 !.stencilFunc = "ALWAYS", !.stencilRef = 0, !.stencilMask = StencilMask,
                 !.stencilOpBack = <<"KEEP", "KEEP", "DECR_WRAP">>,
                 !.stencilOpFront = <<"KEEP", "KEEP", "INCR_WRAP">>]

\* faulty variant of ShadowVolumePassState: the depth-pass operations are set
\* in the depth-fail position
ShadowVolumePassStateDepthPassMisplaced(g, cr) ==
  IF cr
  THEN [g EXCEPT !.cullFace = FALSE,
                 !.stencilFunc = "ALWAYS", !.stencilRef = 0, !.stencilMask = StencilMask,
                 !.stencilOpBack = <<"KEEP", "INCR_WRAP", "KEEP">>,
                 !.stencilOpFront = <<"KEEP", "DECR_WRAP", "KEEP">>]
  ELSE [g EXCEPT !.cullFace = FALSE,
                 !.stencilFunc = "ALWAYS", !.stencilRef = 0, !.stencilMask = StencilMask,
                 !.stencilOpBack = <<"KEEP", "DECR_WRAP", "KEEP">>,
                 !.stencilOpFront = <<"KEEP", "INCR_WRAP", "KEEP">>]

\* shadowVolumePass: no culling, stencil always passes, the operations of the
\* depth-fail (carmackReverse) or of the depth-pass algorithm
ShadowVolumePassState(g, cr) ==
  IF cr
  THEN [g EXCEPT !.cullFace = FALSE,
                 !.stencilFunc = "ALWAYS", !.stencilRef = 0, !.stencilMask = StencilMask,
                 !.stencilOpBack = <<"KEEP", "INCR_WRAP", "KEEP">>,
                 !.stencilOpFront = <<"KEEP", "DECR_WRAP", "KEEP">>]
  ELSE [g EXCEPT !.cullFace = FALSE,
                 !.stencilFunc = "ALWAYS", !.stencilRef = 0, !.stencilMask = StencilMask,
                 !.stencilOpBack = <<"KEEP", "KEEP", "DECR_WRAP">>,
                 !.stencilOpFront = <<"KEEP", "KEEP", "INCR_WRAP">>]

\* shadowVolumePass: the objects with the shadow-volume program
ShadowVolumePassCmds(g, light) ==
  DrawObjectsLog(g, "InstancedShadowVolume", "ShadowVolume", light)

ShadowVolumePassPixel(g, p, fr, n, light, order) ==
  DrawObjects(g, p, fr, n, "ShadowVolume", light, order)

\* shadowVolumePass: culling is enabled back again
ShadowVolumePassEnd(g) == [DrawObjectsState(g, "ShadowVolume") EXCEPT !.cullFace = TRUE]

\* pipeline state set by Draw before the depth prime
DepthPrimeState(g, rm) ==
  [g EXCEPT !.multisample = (rm.msaaLevel > 1),
            !.cullFace = TRUE, !.cullMode = "BACK",
            !.polygonMode = IF rm.wireframe THEN "LINE" ELSE "FILL",
            !.depthTest = TRUE, !.depthClamp = TRUE, !.depthFunc = "LEQUAL",
            !.depthMask = TRUE]

\* faulty variant of DepthPrimeDrawState: the colour write is not disabled
DepthPrimeDrawStateColourOn(g) == g

\* the depth prime draws with the colour write disabled
DepthPrimeDrawState(g) == [g EXCEPT !.colorMask = AllOff]

\* faulty variant of DepthPrimeDone: the depth write stays enabled
DepthPrimeDoneKeepsMask(g) == DrawObjectsState(g, "DepthPass")

\* pipeline state after the depth prime: depth writes off
DepthPrimeDone(g) == [DrawObjectsState(g, "DepthPass") EXCEPT !.depthMask = FALSE]

\* point-light loop, before shadowVolumePass: stencil test on, colour write off
ShadowVolumeDrawState(g) == [g EXCEPT !.stencilTest = TRUE, !.colorMask = AllOff]

\* point-light loop, before the direct lightPass: colour write on
DirectLightDrawState(g) == [g EXCEPT !.colorMask = AllOn]

\* both loops, before the ambient lightPass: stencil test off
AmbientLightDrawState(g) == [g EXCEPT !.stencilTest = FALSE]

\* faulty variant of PointLightStencilClear: the stencil of the previous light stays
PointLightStencilNotCleared(g, p) == p

\* point-light loop: glClear(GL_STENCIL_BUFFER_BIT) before the shadow volumes
PointLightStencilClear(g, p) == Clear(g, p, {"STENCIL"})

\* spot-light loop: glClear(GL_STENCIL_BUFFER_BIT)
SpotLightStencilClear(g, p) == Clear(g, p, {"STENCIL"})

\* ---- loop control of Scene::Draw ----

\* the light whose position and colour the body of the point-light loop hands to
\* the shadow-volume pass of iteration i
ShadowVolumePassLight(i) == PointLight(i)

\* faulty variant of DirectLightPassLight: the first light stands for every light
DirectLightPassLightFirst(i) == PointLight(0)

\* ... to the direct-light pass of iteration i
DirectLightPassLight(i) == PointLight(i)

\* ... to the ambient-light pass of iteration i
AmbientLightPassLight(i) == PointLight(i)

\* for (i = 0; i < _numSpotLights; ...) entered after the point-light loop
AfterPointLoop == IF 0 < numSpotLights THEN "spotLight" ELSE "return"

\* for (i = 0; i < _numPointLights; ...) entered after the depth prime
AfterDepthPrime == IF 0 < numPointLights THEN "shadowVolume" ELSE AfterPointLoop

\* faulty variant of AfterPointLight: the loop test is off by one
AfterPointLightOffByOne(i) == IF i + 1 <= numPointLights THEN "shadowVolume" ELSE AfterPointLoop

\* ++i and the loop test of the point-light loop
AfterPointLight(i) == IF i + 1 < numPointLights THEN "shadowVolume" ELSE AfterPointLoop

\* faulty variant of AfterSpotLight: the loop test is off by one
AfterSpotLightOffByOne(i) == IF i + 1 <= numSpotLights THEN "spotLight" ELSE "return"

\* ++i and the loop test of the spot-light loop
AfterSpotLight(i) == IF i + 1 < numSpotLights THEN "spotLight" ELSE "return"

\* faulty variant of SpotLightPasses: the direct-light pass of the spot light is
\* issued as well
SpotLightPassesWithDirect(i) ==
  <<[pass |-> "DirectLight", light |-> SpotLight(i)],
    [pass |-> "AmbientLight", light |-> SpotLight(i)]>>

\* the passes the body of the spot-light loop issues for spot light i
SpotLightPasses(i) == <<[pass |-> "AmbientLight", light |-> SpotLight(i)]>>

\* the render mode of the program: solid polygons, msaaLevel MSAA_SAMPLES
RenderModes == [wireframe : {FALSE}, msaaLevel : {MSAA_SAMPLES}]

NoSurfaces == [bg |-> NoFragment, obj |-> NoFragment, vol |-> <<>>]

\* fragments of the background and of the cubes at the pixel, for one view
Surfaces(n) ==
  [bg : FragmentsAt,
   obj : IF n > 0 THEN FragmentsAt ELSE {NoFragment},
   vol : {<<>>}]

\* ---- Scene::DrawDepthSingleSpotLight and renderScene ----

\* depthPass of DrawDepthSingleSpotLight: the same two calls as the depthPass of Draw
SpotLightDepthPassCmds(g) == DepthPassCmds(g)

SpotLightDepthPassPixel(g, p, fr, n) == DepthPassPixel(g, p, fr, n)

\* faulty variant of SpotLightDepthState: the depth write is not enabled again
SpotLightDepthStateMaskKept(g, rm) ==
  [g EXCEPT !.multisample = (rm.msaaLevel > 1),
            !.cullFace = TRUE, !.cullMode = "BACK",
            !.polygonMode = IF rm.wireframe THEN "LINE" ELSE "FILL",
            !.depthTest = TRUE, !.depthClamp = TRUE, !.depthFunc = "LEQUAL"]

\* pipeline state set by DrawDepthSingleSpotLight before its clear
SpotLightDepthState(g, rm) ==
  [g EXCEPT !.multisample = (rm.msaaLevel > 1),
            !.cullFace = TRUE, !.cullMode = "BACK",
            !.polygonMode = IF rm.wireframe THEN "LINE" ELSE "FILL",
            !.depthTest = TRUE, !.depthClamp = TRUE, !.depthFunc = "LEQUAL",
            !.depthMask = TRUE]

\* ... before its depthPass: colour write off
SpotLightDepthDrawState(g) == [g EXCEPT !.colorMask = AllOff]

\* ... when it returns: depth writes off
SpotLightDepthDone(g) == [DrawObjectsState(g, "DepthPass") EXCEPT !.depthMask = FALSE]

\* createDepthFramebuffer: the depth map is a new texture without contents;
\* start is the depth the map held when the first draw of its capture began
NewDepthMap == [depth |-> DepthClear, defined |-> FALSE, start |-> DepthClear]

\* what the pixel of a texture without contents can hold
UndefinedDepths == SurfaceDepths \cup {DepthClear}

\* the texture units the samplers of the lit fragment shader read
SamplerBinding ==
  [Diffuse |-> 0, Normal |-> 1, Specular |-> 2, Occlusion |-> 3, WsNormal |-> 4, DepthMap |-> 5]

\* renderScene, point-light loop: glActiveTexture(GL_TEXTURE5) and
\* glBindTexture(GL_TEXTURE_CUBE_MAP, depthCubemap) after the capture
PointLightExport(light) ==
  [texture |-> "depthCubemap", target |-> "GL_TEXTURE_CUBE_MAP", unit |-> 5, light |-> PointLight(light)]

\* renderScene, spot-light loop: glActiveTexture(GL_TEXTURE0) and
\* glBindTexture(GL_TEXTURE_2D, depthMap) after the capture
SpotLightExport(light) ==
  [texture |-> "depthMap", target |-> "GL_TEXTURE_2D", unit |-> 0, light |-> SpotLight(light)]

\* a glClear renderScene issues on the render framebuffer, with the depth
\* mask it runs under
FrameClear(g, site, bits) == [site |-> site, bits |-> bits, depthMask |-> g.depthMask]

NoFrame == [instanceWrites |-> 0, exports |-> <<>>, clears |-> <<>>]

\* a constructed Scene has created nothing
NoObjects ==
  [cubePositions |-> 0, pointLights |-> 0, spotLights |-> 0,
   meshes |-> 0, vertexArrays |-> 0, buffers |-> 0, samplers |-> FALSE, textures |-> 0]

\* what Scene::Init creates: the first cube and the first point light are pushed
\* whatever the counts, the others by the loops
CreatedObjects(c, p, s) ==
  [cubePositions |-> IF c > 1 THEN c ELSE 1,
   pointLights |-> IF p > 1 THEN p ELSE 1,
   spotLights |-> s,
   meshes |-> 3, vertexArrays |-> 1, buffers |-> 2, samplers |-> TRUE, textures |-> 8]

\* the arguments Scene::Init is called with: the scenes within the bounds, and a
\* scene of one spot light with more cubes than the instance buffer holds
InitArgs ==
  ((0..MaxCubes) \X (0..MaxPointLights) \X (0..MaxSpotLights)) \cup
  {<<MAX_INSTANCES + 1, 0, 1>>}

\* the loops of renderScene: point lights, then spot lights
FrameAfterPointLoop == IF 0 < numSpotLights THEN "frameSpotLight" ELSE "frameEnd"
FrameAfterClear == IF 0 < numPointLights THEN "framePointLight" ELSE FrameAfterPointLoop
FrameAfterPointLight(i) == IF i + 1 < numPointLights THEN "framePointLight" ELSE FrameAfterPointLoop
FrameAfterSpotLight(i) == IF i + 1 < numSpotLights THEN "frameSpotLight" ELSE "frameEnd"

\* the light passes of the body of the spot-light loop, run in order from the
\* pipeline state, pixel and commands in st
RECURSIVE SpotLightBody(_, _)
SpotLightBody(st, passes) ==
  IF passes = <<>> THEN st
  ELSE LET h == Head(passes)
           g1 == LightPassState(IF h.pass = "DirectLight"
                                THEN DirectLightDrawState(st.gl)
                                ELSE AmbientLightDrawState(st.gl))
       IN SpotLightBody(
            [gl |-> LightPassEnd(g1, h.pass),
             px |-> LightPassPixel(g1, st.px, frag, CubesAtPixel, h.pass, h.light),
             cmds |-> st.cmds \o LightPassCmds(g1, h.pass, h.light)],
            Tail(passes))

\* ---- the Light Store ----

MaxSeed == 1
MaxClock == 3

\* the seeds of the generator behind getRandom
Seeds == 0..MaxSeed

\* Angles are counted in quarter turns, so that sinf and cosf are exact; the
\* movement parameters, the clock t and dt are integers of that grid.

\* glm::vec3 arithmetic, component by component
Vec3Add(a, b) == <<a[1] + b[1], a[2] + b[2], a[3] + b[3]>>
Vec3Sub(a, b) == <<a[1] - b[1], a[2] - b[2], a[3] - b[3]>>
Vec3Mul(a, b) == <<a[1] * b[1], a[2] * b[2], a[3] * b[3]>>

\* scaling factor and offset of the movement curve of the lights
scale == <<13, 2, 13>>
offset == <<0, 3, 0>>

sinf(a) == CASE a % 4 = 0 -> 0 [] a % 4 = 1 -> 1 [] a % 4 = 2 -> 0 [] OTHER -> -1
cosf(a) == sinf(a + 1)

\* the Lissajous curve of the parameters p at time t
lissajous(p, t) == <<sinf(p[1] * t), cosf(p[2] * t), sinf(p[3] * t) * cosf(p[4] * t)>>

Abs(a) == IF a < 0 THEN -a ELSE a

RECURSIVE Gcd(_, _)
Gcd(a, b) == IF b = 0 THEN a ELSE Gcd(b, a % b)

\* a vector num / sqrt(den2); a vector of integers has den2 = 1
Vec3Of(v) == [num |-> v, den2 |-> 1]

\* glm::normalize of a vector of integers other than zero: v / |v|, with the
\* common factor of the components taken out
normalize(v) ==
  LET g == Gcd(Gcd(Abs(v[1]), Abs(v[2])), Abs(v[3]))
      u == <<v[1] \div g, v[2] \div g, v[3] \div g>>
  IN [num |-> u, den2 |-> u[1] * u[1] + u[2] * u[2] + u[3] * u[3]]

\* the origin of the world
origin == <<0, 0, 0>>

\* the n-th value getRandom(lo, hi) returns in a run whose generator starts
\* from seed
getRandom(seed, n, lo, hi) == lo + (((seed + 1) * (3 * n + 1) + (n \div 2)) % (hi - lo + 1))

\* a Scene before Init: no lights, the clock of Update at 0
NoLights == [t |-> 0, point |-> <<>>, spot |-> <<>>]

\* the lights Scene::Init creates; k counts the values getRandom has returned
\* before the lights (three for every cube but the first)
CreateLights(c, p, s, seed) ==
  LET k0 == 3 * ((IF c > 1 THEN c ELSE 1) - 1)
      np == IF p > 1 THEN p ELSE 1
      ambientIntensity == [milli |-> 1, per |-> p]
      rnd(n, lo, hi) == getRandom(seed, n, lo, hi)
      pointLight(i) ==
        LET k == k0 + 7 * (i - 1)
            m == <<rnd(k, -2, 2), rnd(k + 1, -2, 2), rnd(k + 2, -2, 2), rnd(k + 3, -2, 2)>>
        IN [position |-> Vec3Add(offset, Vec3Mul(lissajous(m, 0), scale)),
            color |-> [rgb |-> <<rnd(k + 4, 0, 5), rnd(k + 5, 0, 5), rnd(k + 6, 0, 5)>>,
                       w |-> ambientIntensity],
            movement |-> m]
      spotLight(i) ==
        LET k == k0 + 7 * (np - 1) + 10 * i
            m == <<rnd(k, -2, 2), rnd(k + 1, -2, 2), rnd(k + 2, -2, 2), rnd(k + 3, -2, 2)>>
        IN [position |-> Vec3Add(offset, Vec3Mul(lissajous(m, 0), scale)),
            color |-> [rgb |-> <<rnd(k + 4, 0, 5), rnd(k + 5, 0, 5), rnd(k + 6, 0, 5)>>,
                       w |-> ambientIntensity],
            movement |-> m,
            direction |-> Vec3Of(<<rnd(k + 7, -2, 2), rnd(k + 8, -2, 2), rnd(k + 9, -2, 2)>>)]
  IN [t |-> 0,
      point |-> [j \in 1..np |->
                  IF j = 1
                  THEN [position |-> <<-3, 3, 0>>,
                        color |-> [rgb |-> <<10, 10, 10>>, w |-> ambientIntensity],
                        movement |-> <<0, 1, 0, 0>>]
                  ELSE pointLight(j - 1)],
      spot |-> [j \in 1..s |-> spotLight(j - 1)]]

\* the lights of a second run: those its own generator makes, except for the
\* movements, which are those of the first run
TwinLights(c, p, s, seed, twinSeed) ==
  LET a == CreateLights(c, p, s, seed)
      b == CreateLights(c, p, s, twinSeed)
  IN [t |-> a.t,
      point |-> [j \in DOMAIN b.point |-> [b.point[j] EXCEPT !.movement = a.point[j].movement]],
      spot |-> [j \in DOMAIN b.spot |-> [b.spot[j] EXCEPT !.movement = a.spot[j].movement]]]

\* faulty variant of UpdateLights: the clock advances before the positions are
\* computed
UpdateLightsClockFirst(L, np, ns, dt) ==
  [t |-> L.t + dt,
   point |-> [j \in DOMAIN L.point |->
               IF j = 1
               THEN [L.point[j] EXCEPT
                       !.position = Vec3Add(<<-3, 2, 0>>, lissajous(L.point[j].movement, L.t + dt))]
               ELSE [L.point[j] EXCEPT
                       !.position = Vec3Add(offset, Vec3Mul(lissajous(L.point[j].movement, L.t + dt), scale))]],
   spot |-> [j \in DOMAIN L.spot |->
              LET pos == Vec3Add(offset, Vec3Mul(lissajous(L.spot[j].movement, L.t + dt), scale))
              IN [L.spot[j] EXCEPT !.position = pos,
                                   !.direction = normalize(Vec3Sub(origin, pos))]]]

\* Scene::Update(dt) on the lights L of a scene of np point lights and ns spot
\* lights: the first light of the array moves on its own curve, the positions
\* are those of the clock before it advances
UpdateLights(L, np, ns, dt) ==
  [t |-> L.t + dt,
   point |-> [j \in DOMAIN L.point |->
               IF j = 1
               THEN [L.point[j] EXCEPT
                       !.position = Vec3Add(<<-3, 2, 0>>, lissajous(L.point[j].movement, L.t))]
               ELSE IF j - 1 < np
               THEN [L.point[j] EXCEPT
                       !.position = Vec3Add(offset, Vec3Mul(lissajous(L.point[j].movement, L.t), scale))]
               ELSE L.point[j]],
   spot |-> [j \in DOMAIN L.spot |->
              IF j - 1 < ns
              THEN LET pos == Vec3Add(offset, Vec3Mul(lissajous(L.spot[j].movement, L.t), scale))
                   IN [L.spot[j] EXCEPT !.position = pos,
                                        !.direction = normalize(Vec3Sub(origin, pos))]
              ELSE L.spot[j]]]

\* the indices Scene::Update uses on _pointLights and _spotLights in a scene of
\* np point lights and ns spot lights: the first light, then the two loops
UpdateIndices(np, ns) ==
  [pointLights |-> {0} \cup (1..(np - 1)), spotLights |-> 0..(ns - 1)]

\* the indices Scene::UpdateInstanceData uses on _cubePositions and on its
\* array instanceData for n cubes
UpdateInstanceDataIndices(n) ==
  [cubePositions |-> 0..(n - 1), instanceData |-> 0..(n - 1)]

\* the index UpdateTransformBlockSingleSpotLight(const float& light) uses on
\* _spotLights: the int of the caller converted to float and back to an index
SpotLightIndex(light) == {light}

\* ---- the render targets ----

\* A texture is alive from the call that gives its name an image to the call
\* that deletes it; targets.textures holds the live textures with the size of
\* their image, targets.framebuffers the names of the live framebuffer objects.

DefaultWidth == 800
DefaultHeight == 600
SHADOW_SIZE == 1024

\* the sizes the window system reports to resizeCallback
WindowSizes == {<<DefaultWidth, DefaultHeight>>, <<1920, 1080>>}

\* the program before initOpenGL: every global name is 0, nothing is alive
NoTargets ==
  [fboRender |-> 0, renderTarget |-> 0, depthRenderMap |-> 0,
   fboCubeMapDepth |-> 0, fboDepth |-> 0, depthMap |-> 0, depthCubemap |-> 0,
   textures |-> {}, framebuffers |-> {},
   color |-> 0, depth |-> 0,
   peak |-> 0, diagnostics |-> 0, bound |-> 0]

TextureNames(T) == {x.name : x \in T.textures}

\* glIsTexture(name)
IsTexture(T, name) == name \in TextureNames(T)

\* glGenTextures / glGenFramebuffers: a name that is not in use
NewName(used) == CHOOSE n \in 1..(Cardinality(used) + 1) : n \notin used

Max(a, b) == IF a > b THEN a ELSE b

\* faulty variant of RecreateTexture: the old texture is never deleted
RecreateTextureLeaking(T, h, size, samples) ==
  LET n == NewName(TextureNames(T))
  IN [T EXCEPT ![h] = n,
               !.textures = @ \cup {[name |-> n, size |-> size, samples |-> samples]},
               !.peak = Max(@, Cardinality(T.textures) + 1)]

\* the steps every create function takes for the texture the global h names:
\* delete it if it is a texture, generate a name if the global is 0, give the
\* name an image of the size asked for
RecreateTexture(T, h, size, samples) ==
  LET T1 == IF IsTexture(T, T[h])
            THEN [T EXCEPT !.textures = {x \in @ : x.name # T[h]}, ![h] = 0]
            ELSE T
      n == IF T1[h] = 0 THEN NewName(TextureNames(T1)) ELSE T1[h]
      T2 == [T1 EXCEPT ![h] = n,
                       !.textures = {x \in @ : x.name # n} \cup
                                    {[name |-> n, size |-> size, samples |-> samples]}]
  IN [T2 EXCEPT !.peak = Max(@, Cardinality(T2.textures))]

\* "generate the FBO if necessary", then bind it
GenFramebuffer(T, h) ==
  LET n == IF T[h] = 0 THEN NewName(T.framebuffers) ELSE T[h]
  IN [T EXCEPT ![h] = n, !.framebuffers = @ \cup {n}, !.bound = n]

\* the start of a create function: the default framebuffer is bound; peak and
\* diagnostics are those of the running call
CreateBegin(T) == [T EXCEPT !.bound = 0, !.peak = Cardinality(T.textures), !.diagnostics = 0]

\* faulty variant of CreateEnd: a framebuffer that is not complete is created
\* again until it is
CreateEndRetrying(T, complete) ==
  [T EXCEPT !.diagnostics = IF complete THEN @ ELSE @ + 2, !.bound = 0]

\* the end of a create function: one message if the framebuffer is not
\* complete, the default framebuffer bound again
CreateEnd(T, complete) ==
  [T EXCEPT !.diagnostics = IF complete THEN @ ELSE @ + 1, !.bound = 0]

\* faulty variant of createFramebuffer: the depth target keeps its old image
createFramebufferStaleDepth(T, width, height, MSAA, complete) ==
  LET samples == IF MSAA > 1 THEN MSAA ELSE 0
      T1 == GenFramebuffer(CreateBegin(T), "fboRender")
      T2 == RecreateTexture(T1, "renderTarget", <<width, height>>, samples)
      T3 == IF T2.depthRenderMap = 0
            THEN RecreateTexture(T2, "depthRenderMap", <<width, height>>, 0)
            ELSE T2
  IN CreateEnd([T3 EXCEPT !.color = T3.renderTarget, !.depth = T3.depthRenderMap], complete)

\* createFramebuffer(width, height, MSAA); complete is the answer of
\* glCheckFramebufferStatus
createFramebuffer(T, width, height, MSAA, complete) ==
  LET samples == IF MSAA > 1 THEN MSAA ELSE 0
      T1 == GenFramebuffer(CreateBegin(T), "fboRender")
      T2 == RecreateTexture(T1, "renderTarget", <<width, height>>, samples)
      T3 == RecreateTexture(T2, "depthRenderMap", <<width, height>>, 0)
  IN CreateEnd([T3 EXCEPT !.color = T3.renderTarget, !.depth = T3.depthRenderMap], complete)

\* createDepthFramebuffer(width, height): the image has SHADOW_SIZE, whatever
\* the arguments
createDepthFramebuffer(T, width, height, complete) ==
  LET T1 == GenFramebuffer(CreateBegin(T), "fboDepth")
      T2 == RecreateTexture(T1, "depthMap", <<SHADOW_SIZE, SHADOW_SIZE>>, 0)
  IN CreateEnd(T2, complete)

\* createCubeMapDepthFramebuffer(width, height)
createCubeMapDepthFramebuffer(T, width, height, complete) ==
  LET T1 == GenFramebuffer(CreateBegin(T), "fboCubeMapDepth")
      T2 == RecreateTexture(T1, "depthCubemap", <<SHADOW_SIZE, SHADOW_SIZE>>, 0)
  IN CreateEnd(T2, complete)

\* glDeleteTextures(1, &name) and glDeleteFramebuffers(1, &name): the global
\* keeps the name
DeleteTexture(T, h) == [T EXCEPT !.textures = {x \in @ : x.name # T[h]}]
DeleteFramebuffer(T, h) == [T EXCEPT !.framebuffers = @ \ {T[h]}]

\* ---- the program around the scene ----

\* the arguments of scene.Init in main
MainArgs == <<10, 2, 1>>

\* the keys keyCallback tells apart, as far as AppSpec follows them; OTHER
\* stands for the keys that change vsync or tonemapping and for those
\* keyCallback ignores
Keys == {"ESCAPE", "F1", "F2", "F5", "F6", "OTHER"}

\* the keys that change the field of view, followed by KeySpec
ZoomKeys == {"KP_ADD", "EQUAL", "KP_SUBTRACT", "MINUS", "BACKSPACE"}

\* the action of a key event
KeyActions == {"PRESS", "RELEASE", "REPEAT"}

\* "fov -= 1.0f; if (fov < 5.0f) fov = 5.0f;"
ZoomIn(fov) == IF fov - 1 < 5 THEN 5 ELSE fov - 1

\* "fov += 1.0f; if (fov >= 180.0f) fov = 179.0f;"
ZoomOut(fov) == IF fov + 1 >= 180 THEN 179 ELSE fov + 1

\* the steps of the clock one iteration of mainLoop can measure
Dts == {0, 1}

NoBlit == [src |-> <<0, 0, 0, 0>>, dst |-> <<0, 0, 0, 0>>, read |-> 0, draw |-> 0]

\* the globals of the program when main is entered, the generator of
\* getRandom starting from seed
AppStart(seed, twinSeed) ==
  [pc |-> "main", animate |-> FALSE, width |-> 0, height |-> 0, dt |-> 0,
   close |-> FALSE, calls |-> <<>>, blit |-> NoBlit, seed |-> seed, twinSeed |-> twinSeed,
   fov |-> 45]

\* the program after initOpenGL and compileShaders, about to call scene.Init
AppReady(seed, twinSeed) ==
  [AppStart(seed, twinSeed) EXCEPT !.pc = "init", !.width = DefaultWidth, !.height = DefaultHeight]

\* ---- operations ----

\* a constructed Scene: no VAO yet; the counts are read by Draw only after
\* Scene::Init has set them.  The program is about to call scene.Init: the
\* window and its render framebuffer exist
Init ==
  /\ vao = FALSE
  /\ numCubes = 0
  /\ numPointLights = 0
  /\ numSpotLights = 0
  /\ renderMode = [wireframe |-> FALSE, msaaLevel |-> MSAA_SAMPLES]
  /\ carmackReverse = TRUE
  /\ gl = GLDefault
  /\ px = PixelDefault
  /\ frag = NoSurfaces
  /\ shadow = NoShadow
  /\ pc = "idle"
  /\ li = 0
  /\ op = "none"
  /\ passLog = <<>>
  /\ primed = DepthClear
  /\ cmds = <<>>
  /\ bufferLog = <<>>
  /\ depthMap = NewDepthMap
  /\ frame = NoFrame
  /\ objects = NoObjects
  /\ lights = NoLights
  /\ twin = NoLights
  /\ app = AppReady(0, 0)
  /\ targets = createFramebuffer(NoTargets, DefaultWidth, DefaultHeight, MSAA_SAMPLES, TRUE)

\* faulty variant of SceneInit: the check of _vao is missing
SceneInitUnguarded(c, p, s) ==
  /\ pc = "idle"
  /\ vao' = TRUE
  /\ numCubes' = c
  /\ numPointLights' = p
  /\ numSpotLights' = s
  /\ objects' = [k \in DOMAIN objects |->
                  IF k = "samplers" THEN TRUE ELSE objects[k] + CreatedObjects(c, p, s)[k]]
  /\ gl' = [gl EXCEPT !.uniformSlot0 = "transformBlockUBO"]
  /\ lights' = [CreateLights(c, p, s, app.seed) EXCEPT !.t = lights.t]
  /\ twin' = [TwinLights(c, p, s, app.seed, app.twinSeed) EXCEPT !.t = twin.t]
  /\ op' = "Init"
  /\ UNCHANGED <<hostVars, renderMode, carmackReverse, px, frag, shadow, pc, li, passLog, primed, cmds,
                 bufferLog, depthMap, frame>>

\* Scene::Init(numCubes, numPointLights, numSpotLights)
SceneInit(c, p, s) ==
  /\ pc = "idle"
  /\ IF vao
     THEN UNCHANGED <<sceneVars, objects, gl, lightVars>>
     ELSE /\ vao' = TRUE
          /\ numCubes' = c
          /\ numPointLights' = p
          /\ numSpotLights' = s
          /\ objects' = CreatedObjects(c, p, s)
          /\ gl' = [gl EXCEPT !.uniformSlot0 = "transformBlockUBO"]
          /\ lights' = [CreateLights(c, p, s, app.seed) EXCEPT !.t = lights.t]
          /\ twin' = [TwinLights(c, p, s, app.seed, app.twinSeed) EXCEPT !.t = twin.t]
  /\ op' = "Init"
  /\ UNCHANGED <<hostVars, renderMode, carmackReverse, px, frag, shadow, pc, li, passLog, primed, cmds,
                 bufferLog, depthMap, frame>>

\* Scene::Draw(camera, renderMode, carmackReverse), from entry to the end of the
\* depth prime
DrawDepthPrime ==
  /\ pc = "idle"
  /\ vao
  /\ \E rm \in RenderModes, cr \in BOOLEAN, fr \in Surfaces(CubesAtPixel) :
     LET g1 == DepthPrimeState(UpdateInstanceDataState(gl), rm)
         g2 == DepthPrimeDrawState(g1)
         p2 == DepthPassPixel(g2, Clear(g1, px, {"COLOR", "DEPTH"}), fr, CubesAtPixel)
     IN /\ gl' = DepthPrimeDone(g2)
        /\ px' = p2
        /\ primed' = p2.depth
        /\ cmds' = <<ClearCmd(g1, {"COLOR", "DEPTH"})>> \o DepthPassCmds(g2)
        /\ bufferLog' = DrawBufferWrites(gl)
        /\ renderMode' = rm
        /\ carmackReverse' = cr
        /\ frag' = fr
  /\ op' = "Draw"
  /\ passLog' = <<[pass |-> "DepthPass", light |-> NoLight]>>
  /\ li' = 0
  /\ pc' = AfterDepthPrime
  /\ UNCHANGED <<lightVars, hostVars, sceneVars, objects, shadow, depthMap, frame>>

\* point-light loop: stencil clear and shadow-volume pass of light li
DrawShadowVolume ==
  /\ pc = "shadowVolume"
  /\ LET g1 == ShadowVolumePassState(ShadowVolumeDrawState(gl), carmackReverse)
     IN /\ gl' = ShadowVolumePassEnd(g1)
        /\ cmds' = <<ClearCmd(gl, {"STENCIL"})>> \o ShadowVolumePassCmds(g1, ShadowVolumePassLight(li))
  /\ passLog' = Append(passLog, [pass |-> "ShadowVolume", light |-> PointLight(li)])
  /\ pc' = "directLight"
  /\ UNCHANGED <<lightVars, hostVars, sceneVars, objects, renderMode, carmackReverse, frag, li, op, primed, bufferLog, depthMap, frame>>
  /\ LET p1 == PointLightStencilClear(gl, px)
         g1 == ShadowVolumePassState(ShadowVolumeDrawState(gl), carmackReverse)
         g1o == ShadowVolumePassState(ShadowVolumeDrawState(gl), ~carmackReverse)
     IN \E vol \in Volumes(CubesAtPixel) :
        LET fr == [frag EXCEPT !.vol = vol]
            inside == InsideCount(vol, VisibleDepth(frag))
            eyeInside == EyeInsideAny(vol)
            faces == CountedFaces(vol, CubesAtPixel, p1.depth, carmackReverse)
        IN \E order \in FaceOrders :
           LET p2 == ShadowVolumePassPixel(g1, p1, fr, CubesAtPixel, ShadowVolumePassLight(li), order)
           IN /\ px' = p2
              /\ shadow' = [phase |-> "volume", light |-> li,
                            inside |-> inside,
                            eyeInside |-> eyeInside,
                            cleared |-> p1.stencil,
                            stencil |-> p2.stencil,
                            other |-> ShadowVolumePassPixel(g1o, p1, fr, CubesAtPixel, ShadowVolumePassLight(li), order).stencil,
                            faces |-> faces,
                            colour |-> p2.colour]

\* point-light loop: direct-light pass of light li
DrawDirectLight ==
  /\ pc = "directLight"
  /\ LET g1 == LightPassState(DirectLightDrawState(gl))
     IN /\ gl' = LightPassEnd(g1, "DirectLight")
        /\ px' = LightPassPixel(g1, px, frag, CubesAtPixel, "DirectLight", DirectLightPassLight(li))
        /\ cmds' = LightPassCmds(g1, "DirectLight", DirectLightPassLight(li))
  /\ passLog' = Append(passLog, [pass |-> "DirectLight", light |-> PointLight(li)])
  /\ shadow' = [shadow EXCEPT !.phase = "direct", !.faces = NoShadow.faces]
  /\ pc' = "ambientLight"
  /\ UNCHANGED <<lightVars, hostVars, sceneVars, objects, renderMode, carmackReverse, frag, li, op, primed, bufferLog, depthMap, frame>>

\* point-light loop: ambient-light pass of light li, then ++i
DrawAmbientLight ==
  /\ pc = "ambientLight"
  /\ LET g1 == LightPassState(AmbientLightDrawState(gl))
     IN /\ gl' = LightPassEnd(g1, "AmbientLight")
        /\ px' = LightPassPixel(g1, px, frag, CubesAtPixel, "AmbientLight", AmbientLightPassLight(li))
        /\ cmds' = LightPassCmds(g1, "AmbientLight", AmbientLightPassLight(li))
  /\ passLog' = Append(passLog, [pass |-> "AmbientLight", light |-> PointLight(li)])
  /\ shadow' = [shadow EXCEPT !.phase = "ambient"]
  /\ pc' = AfterPointLight(li)
  /\ li' = IF AfterPointLight(li) = "shadowVolume" THEN li + 1 ELSE 0
  /\ UNCHANGED <<lightVars, hostVars, sceneVars, objects, renderMode, carmackReverse, frag, op, primed, bufferLog, depthMap, frame>>

\* spot-light loop body: stencil clear and the ambient-light pass of spot light li
DrawSpotLight ==
  /\ pc = "spotLight"
  /\ LET r == SpotLightBody([gl |-> AmbientLightDrawState(gl),
                             px |-> SpotLightStencilClear(gl, px),
                             cmds |-> <<ClearCmd(gl, {"STENCIL"})>>],
                            SpotLightPasses(li))
     IN /\ gl' = r.gl
        /\ px' = r.px
        /\ cmds' = r.cmds
  /\ passLog' = passLog \o SpotLightPasses(li)
  /\ shadow' = NoShadow
  /\ pc' = AfterSpotLight(li)
  /\ li' = IF AfterSpotLight(li) = "spotLight" THEN li + 1 ELSE 0
  /\ UNCHANGED <<lightVars, hostVars, sceneVars, objects, renderMode, carmackReverse, frag, op, primed, bufferLog, depthMap, frame>>

\* faulty variant of DrawReturn: the colour mask stays as the last pass left it
DrawReturnKeepsMask ==
  /\ pc = "return"
  /\ pc' = "idle"
  /\ frag' = NoSurfaces
  /\ shadow' = NoShadow
  /\ carmackReverse' = TRUE
  /\ primed' = DepthClear
  /\ UNCHANGED <<lightVars, hostVars, sceneVars, objects, renderMode, gl, px, li, op, passLog, cmds, bufferLog, depthMap, frame>>

\* Scene::Draw: the colour write is left enabled, Draw returns (its frame is gone)
DrawReturn ==
  /\ pc = "return"
  /\ gl' = [gl EXCEPT !.colorMask = AllOn]
  /\ pc' = "idle"
  /\ frag' = NoSurfaces
  /\ shadow' = NoShadow
  /\ carmackReverse' = TRUE
  /\ primed' = DepthClear
  /\ UNCHANGED <<lightVars, hostVars, sceneVars, objects, renderMode, px, li, op, passLog, cmds, bufferLog, depthMap, frame>>

\* renderScene: the frame-start clear of the render framebuffer
RenderSceneClear ==
  /\ pc = "idle"
  /\ vao
  /\ px' = Clear(gl, px, {"DEPTH", "COLOR", "STENCIL"})
  /\ cmds' = <<ClearCmd(gl, {"DEPTH", "COLOR", "STENCIL"})>>
  /\ op' = "renderScene"
  /\ passLog' = <<>>
  /\ bufferLog' = <<>>
  /\ frame' = [NoFrame EXCEPT !.clears = <<FrameClear(gl, "frameStart", {"DEPTH", "COLOR", "STENCIL"})>>]
  /\ depthMap' = IF FrameAfterClear = "framePointLight" THEN depthMap ELSE NewDepthMap
  /\ li' = 0
  /\ pc' = FrameAfterClear
  /\ UNCHANGED <<lightVars, hostVars, sceneVars, objects, renderMode, carmackReverse, gl, frag, shadow, primed>>

\* renderScene, body of the point-light loop: the cube-map capture and the light
\* pass of point light li draw into targets that are not modelled; the depth
\* of the render framebuffer is cleared between them
RenderScenePointLight ==
  /\ pc = "framePointLight"
  /\ px' = Clear(gl, px, {"DEPTH"})
  /\ cmds' = <<ClearCmd(gl, {"DEPTH"})>>
  /\ depthMap' = IF FrameAfterPointLight(li) = "framePointLight" THEN depthMap ELSE NewDepthMap
  /\ pc' = FrameAfterPointLight(li)
  /\ li' = IF FrameAfterPointLight(li) = "framePointLight" THEN li + 1 ELSE 0
  /\ frame' = [frame EXCEPT !.exports = Append(@, PointLightExport(li)),
                             !.clears = Append(@, FrameClear(gl, "pointLight", {"DEPTH"}))]
  /\ UNCHANGED <<lightVars, hostVars, sceneVars, objects, renderMode, carmackReverse, gl, frag, shadow, op, passLog, primed,
                 bufferLog>>

\* renderScene, body of the spot-light loop: the depth map is cleared,
\* Scene::DrawDepthSingleSpotLight(camera, renderMode, li) captures the depth of
\* the scene as the light sees it, the depth of the render framebuffer is
\* cleared.  The map of the first capture of a frame is a new texture: it
\* holds any depth (held), and the capture goes on from each depth the two
\* clears can leave
DrawDepthSingleSpotLight ==
  /\ pc = "frameSpotLight"
  /\ \E rm \in RenderModes, fr \in Surfaces(CubesAtPixel) :
     LET g1 == SpotLightDepthState(UpdateInstanceDataState(gl), rm)
         g2 == SpotLightDepthDrawState(g1)
         g3 == SpotLightDepthDone(g2)
         held == IF depthMap.defined THEN {depthMap.depth} ELSE UndefinedDepths
         d0(h) == [depth |-> Clear(gl, [PixelDefault EXCEPT !.depth = h], {"DEPTH"}).depth,
                   stencil |-> 0, colour |-> {}]
     IN \E d1 \in {Clear(g1, d0(h), {"COLOR", "DEPTH"}) : h \in held} :
        /\ gl' = g3
        /\ depthMap' = [depth |-> SpotLightDepthPassPixel(g2, d1, fr, CubesAtPixel).depth,
                        defined |-> TRUE, start |-> d1.depth]
        /\ px' = Clear(g3, px, {"DEPTH"})
        /\ frame' = [frame EXCEPT !.instanceWrites = @ + 1,
                                   !.exports = Append(@, SpotLightExport(li)),
                                   !.clears = Append(@, FrameClear(g3, "spotLight", {"DEPTH"}))]
        /\ cmds' = <<ClearCmd(g1, {"COLOR", "DEPTH"})>> \o SpotLightDepthPassCmds(g2)
        /\ bufferLog' = SpotLightBufferWrites(gl, li)
        /\ renderMode' = rm
  /\ op' = "DrawDepthSingleSpotLight"
  /\ passLog' = <<[pass |-> "DepthPass", light |-> NoLight]>>
  /\ pc' = FrameAfterSpotLight(li)
  /\ li' = li + 1
  /\ UNCHANGED <<lightVars, hostVars, sceneVars, objects, carmackReverse, frag, shadow, primed>>

\* renderScene: the colour write is enabled, the frame is shown
RenderSceneEnd ==
  /\ pc = "frameEnd"
  /\ gl' = [gl EXCEPT !.colorMask = AllOn]
  /\ pc' = "idle"
  /\ li' = 0
  /\ frame' = NoFrame
  /\ depthMap' = NewDepthMap
  /\ UNCHANGED <<lightVars, hostVars, sceneVars, objects, renderMode, carmackReverse, px, frag, shadow, op, passLog, primed,
                 cmds, bufferLog>>

\* the instance data do not fit: UpdateInstanceData, called by Draw or by
\* DrawDepthSingleSpotLight, writes past its array and past the mapped buffer;
\* the call goes on as the others do, or the program ends here
InstanceDataOverflow ==
  /\ pc \in {"idle", "frameSpotLight"}
  /\ vao
  /\ numCubes > MAX_INSTANCES
  /\ pc' = "crashed"
  /\ op' = "UpdateInstanceData"
  /\ bufferLog' = IF pc = "idle" THEN DrawBufferWrites(gl) ELSE SpotLightBufferWrites(gl, li)
  /\ passLog' = <<>>
  /\ cmds' = <<>>
  /\ UNCHANGED <<lightVars, hostVars, sceneVars, objects, renderMode, carmackReverse, gl, px, frag, shadow, li, primed,
                 depthMap, frame>>

Next ==
  \/ \E a \in InitArgs : SceneInit(a[1], a[2], a[3])
  \/ DrawDepthPrime
  \/ DrawShadowVolume
  \/ DrawDirectLight
  \/ DrawAmbientLight
  \/ DrawSpotLight
  \/ DrawReturn
  \/ RenderSceneClear
  \/ RenderScenePointLight
  \/ DrawDepthSingleSpotLight
  \/ RenderSceneEnd
  \/ InstanceDataOverflow

Spec == Init /\ [][Next]_vars

\* ---- the program: main, mainLoop, the callbacks, the teardown ----

\* the variables of the pixel that is followed through a frame
pixelVars == <<px, frag, shadow, pc, li, op, passLog, primed, cmds, bufferLog, depthMap, frame>>

\* main has been entered: nothing is created yet, the generators of the run and
\* of its twin start from any seed
AppInit ==
  /\ vao = FALSE
  /\ numCubes = 0
  /\ numPointLights = 0
  /\ numSpotLights = 0
  /\ renderMode = [wireframe |-> FALSE, msaaLevel |-> MSAA_SAMPLES]
  /\ carmackReverse = TRUE
  /\ gl = GLDefault
  /\ px = PixelDefault
  /\ frag = NoSurfaces
  /\ shadow = NoShadow
  /\ pc = "idle"
  /\ li = 0
  /\ op = "none"
  /\ passLog = <<>>
  /\ primed = DepthClear
  /\ cmds = <<>>
  /\ bufferLog = <<>>
  /\ depthMap = NewDepthMap
  /\ frame = NoFrame
  /\ objects = NoObjects
  /\ lights = NoLights
  /\ twin = NoLights
  /\ \E seed \in Seeds, twinSeed \in Seeds : app = AppStart(seed, twinSeed)
  /\ targets = NoTargets

\* resizeCallback(window, width, height)
resizeCallback(width, height, complete) ==
  /\ app' = [app EXCEPT !.width = width, !.height = height]
  /\ targets' = createFramebuffer(targets, width, height, renderMode.msaaLevel, complete)

\* initOpenGL and compileShaders, as main calls them: when both succeed the
\* window has its default size and resizeCallback has made the render
\* framebuffer; when one fails main goes to shutDown
initOpenGL ==
  /\ app.pc = "main"
  /\ \E ok \in BOOLEAN, complete \in BOOLEAN :
       IF ok
       THEN /\ targets' = createFramebuffer(targets, DefaultWidth, DefaultHeight,
                                            renderMode.msaaLevel, complete)
            /\ app' = [app EXCEPT !.width = DefaultWidth, !.height = DefaultHeight, !.pc = "init"]
       ELSE /\ app' = [app EXCEPT !.pc = "shutDown"]
            /\ UNCHANGED targets
  /\ UNCHANGED <<sceneVars, objects, renderMode, carmackReverse, gl, pixelVars, lightVars>>

\* mainLoop, the head of an iteration: the loop ends when the window is to be
\* closed, else dt is measured
mainLoopBegin ==
  /\ app.pc = "loop" \/ (app.pc = "init" /\ vao)
  /\ IF app.close
     THEN app' = [app EXCEPT !.pc = "shutDown"]
     ELSE \E dt \in Dts :
            /\ lights.t + dt <= MaxClock
            /\ app' = [app EXCEPT !.pc = "poll", !.dt = dt, !.calls = <<>>]
  /\ UNCHANGED <<sceneVars, objects, renderMode, carmackReverse, gl, pixelVars, lightVars, targets>>

\* glfwPollEvents delivers a resize of the window
PollResize ==
  /\ app.pc = "poll"
  /\ \E size \in WindowSizes, complete \in BOOLEAN : resizeCallback(size[1], size[2], complete)
  /\ UNCHANGED <<sceneVars, objects, renderMode, carmackReverse, gl, pixelVars, lightVars>>

\* keyCallback(window, key, scancode, action, mods); the conditions of the
\* zoom keys are "key == A || key == B && action == GLFW_PRESS", in which &&
\* binds tighter than ||
keyCallback(key, action, complete) ==
  LET pressed(k) == key = k /\ action = "PRESS"
      zoomIn == key = "KP_ADD" \/ (key = "EQUAL" /\ action = "PRESS")
      zoomOut == key = "KP_SUBTRACT" \/ (key = "MINUS" /\ action = "PRESS")
      fov1 == IF zoomIn THEN ZoomIn(app.fov) ELSE app.fov
      fov2 == IF zoomOut THEN ZoomOut(fov1) ELSE fov1
      fov3 == IF pressed("BACKSPACE") THEN 45 ELSE fov2
  IN /\ app' = [app EXCEPT !.close = IF pressed("ESCAPE") THEN TRUE ELSE @,
                           !.animate = IF pressed("F5") THEN ~@ ELSE @,
                           !.fov = fov3]
     /\ renderMode' = [renderMode EXCEPT !.msaaLevel = IF pressed("F1") THEN 1 ELSE @,
                                         !.wireframe = IF pressed("F2") THEN ~@ ELSE @]
     /\ carmackReverse' = IF pressed("F6") THEN ~carmackReverse ELSE carmackReverse
     /\ targets' = IF pressed("F1")
                   THEN createFramebuffer(targets, app.width, app.height, 1, complete)
                   ELSE targets

\* glfwPollEvents delivers a key event
PollKey ==
  /\ app.pc = "poll"
  /\ \E key \in Keys, action \in KeyActions, complete \in BOOLEAN : keyCallback(key, action, complete)
  /\ UNCHANGED <<sceneVars, objects, gl, pixelVars, lightVars>>

\* processInput(dt): the camera, which is not followed here
processInput ==
  /\ app.pc = "poll"
  /\ app' = [app EXCEPT !.pc = "update", !.calls = Append(@, "processInput")]
  /\ UNCHANGED <<sceneVars, objects, renderMode, carmackReverse, gl, pixelVars, lightVars, targets>>

\* faulty variant of Update: the direction of the spot lights is left as it is
UpdateKeepsDirection(dt) ==
  /\ lights' = [UpdateLights(lights, numPointLights, numSpotLights, dt) EXCEPT
                  !.spot = [j \in DOMAIN @ |-> [@[j] EXCEPT !.direction = lights.spot[j].direction]]]
  /\ twin' = [UpdateLights(twin, numPointLights, numSpotLights, dt) EXCEPT
                  !.spot = [j \in DOMAIN @ |-> [@[j] EXCEPT !.direction = twin.spot[j].direction]]]
  /\ UNCHANGED <<sceneVars, objects, renderMode, carmackReverse, gl, pixelVars, targets>>

\* Scene::Update(dt), in the run and in its twin
Update(dt) ==
  /\ lights' = UpdateLights(lights, numPointLights, numSpotLights, dt)
  /\ twin' = UpdateLights(twin, numPointLights, numSpotLights, dt)
  /\ UNCHANGED <<sceneVars, objects, renderMode, carmackReverse, gl, pixelVars, targets>>

\* faulty variant of mainLoopUpdate: the scene is updated whatever animate says
mainLoopUpdateAlways ==
  /\ app.pc = "update"
  /\ Update(app.dt)
  /\ app' = [app EXCEPT !.pc = "render", !.calls = Append(@, "Update")]

\* mainLoop: "if (animate) scene.Update(dt)"
mainLoopUpdate ==
  /\ app.pc = "update"
  /\ IF app.animate
     THEN /\ Update(app.dt)
          /\ app' = [app EXCEPT !.pc = "render", !.calls = Append(@, "Update")]
     ELSE /\ app' = [app EXCEPT !.pc = "render"]
          /\ UNCHANGED <<sceneVars, objects, renderMode, carmackReverse, gl, pixelVars, lightVars,
                         targets>>

\* renderScene(pointLights, spotLights) as the render targets and the window
\* see it: the two shadow targets are created again, the render framebuffer is
\* copied to the window; glfwSwapBuffers ends the iteration.  What the frame
\* draws is followed by RenderSceneClear .. RenderSceneEnd
renderScene ==
  /\ app.pc = "render"
  /\ \E cubeComplete \in BOOLEAN, depthComplete \in BOOLEAN :
       LET T1 == createCubeMapDepthFramebuffer(targets, SHADOW_SIZE, SHADOW_SIZE, cubeComplete)
           T2 == createDepthFramebuffer(T1, SHADOW_SIZE, SHADOW_SIZE, depthComplete)
       IN /\ targets' = [T2 EXCEPT !.diagnostics = T1.diagnostics + T2.diagnostics]
          /\ app' = [app EXCEPT !.pc = "loop", !.calls = Append(@, "renderScene"),
                                !.blit = [src |-> <<0, 0, app.width, app.height>>,
                                          dst |-> <<0, 0, app.width, app.height>>,
                                          read |-> T2.fboRender, draw |-> 0]]
  /\ UNCHANGED <<sceneVars, objects, renderMode, carmackReverse, gl, pixelVars, lightVars>>

\* shutDown: the textures and framebuffer objects it names are deleted
shutDown ==
  /\ app.pc = "shutDown"
  /\ targets' = DeleteFramebuffer(DeleteFramebuffer(DeleteFramebuffer(
                  DeleteTexture(DeleteTexture(DeleteTexture(targets,
                    "renderTarget"), "depthMap"), "depthCubemap"),
                  "fboRender"), "fboDepth"), "fboCubeMapDepth")
  /\ app' = [app EXCEPT !.pc = "exit"]
  /\ UNCHANGED <<sceneVars, objects, renderMode, carmackReverse, gl, pixelVars, lightVars>>

\* what Scene::~Scene releases of the objects Init created: the meshes, the
\* instancing buffer, the VAO and the loaded textures
Released(o) ==
  [o EXCEPT !.meshes = 0,
            !.buffers = IF @ > 0 THEN @ - 1 ELSE 0,
            !.vertexArrays = 0,
            !.textures = 0]

\* Scene::~Scene, run when the program exits: scene is a static object, so its
\* destructor runs after main has returned and glfwTerminate has destroyed the
\* context; its gl* calls then act as written or not at all
SceneDestroy ==
  /\ app.pc = "exit"
  /\ \E acts \in BOOLEAN :
       objects' = IF acts THEN Released(objects) ELSE [objects EXCEPT !.meshes = 0]
  /\ app' = [app EXCEPT !.pc = "done"]
  /\ UNCHANGED <<sceneVars, renderMode, carmackReverse, gl, pixelVars, lightVars, targets>>

AppNext ==
  \/ initOpenGL
  \/ app.pc = "init" /\ SceneInit(MainArgs[1], MainArgs[2], MainArgs[3])
  \/ mainLoopBegin
  \/ PollResize
  \/ PollKey
  \/ processInput
  \/ mainLoopUpdate
  \/ renderScene
  \/ shutDown
  \/ SceneDestroy

AppSpec == AppInit /\ [][AppNext]_vars

\* ---- the keyboard: the events of one glfwPollEvents ----

\* glfwPollEvents delivers an event of any key, the zoom keys included
PollAnyKey ==
  /\ app.pc = "poll"
  /\ \E key \in Keys \cup ZoomKeys, action \in KeyActions, complete \in BOOLEAN :
       keyCallback(key, action, complete)
  /\ UNCHANGED <<sceneVars, objects, gl, pixelVars, lightVars>>

\* the program from scene.Init to the first glfwPollEvents of mainLoop, which
\* delivers any number of key events
KeyNext ==
  \/ app.pc = "init" /\ SceneInit(MainArgs[1], MainArgs[2], MainArgs[3])
  \/ mainLoopBegin
  \/ PollAnyKey

KeySpec == Init /\ [][KeyNext]_vars


\* ---- properties ----

\* the draw calls of the pass that ran last
DrawCmds == {cmds[k] : k \in {j \in DOMAIN cmds : cmds[j].cmd = "draw"}}

PassDraws(pass) == {c \in DrawCmds : c.pass = pass}

PassTag(pass, light) == [pass |-> pass, light |-> light]

\* the passes Draw has to issue for P point lights and S spot lights
RECURSIVE ExpectedPointPasses(_)
ExpectedPointPasses(P) ==
  IF P = 0 THEN <<>>
  ELSE ExpectedPointPasses(P - 1) \o
       <<PassTag("ShadowVolume", PointLight(P - 1)),
         PassTag("DirectLight", PointLight(P - 1)),
         PassTag("AmbientLight", PointLight(P - 1))>>

RECURSIVE ExpectedSpotPasses(_)
ExpectedSpotPasses(S) ==
  IF S = 0 THEN <<>>
  ELSE Append(ExpectedSpotPasses(S - 1), PassTag("AmbientLight", SpotLight(S - 1)))

ExpectedPasses(P, S) ==
  <<PassTag("DepthPass", NoLight)>> \o ExpectedPointPasses(P) \o ExpectedSpotPasses(S)

IsPrefix(a, b) == Len(a) <= Len(b) /\ SubSeq(b, 1, Len(a)) = a

\* C1: a call of Draw on an initialized scene with P point lights and S spot
\* lights issues the depth prime, then for each point light in index order the
\* shadow-volume, direct-light and ambient-light pass, then for each spot light
\* in index order one ambient-light pass: while Draw runs the passes issued are
\* a prefix of that sequence, and when it returns they are the whole sequence,
\* 1 + 3P + S passes.
C1_PassSequence ==
  op = "Draw" =>
    LET expected == ExpectedPasses(numPointLights, numSpotLights)
    IN /\ IsPrefix(passLog, expected)
       /\ Len(expected) = 1 + 3 * numPointLights + numSpotLights
       /\ (pc \in {"return", "idle"} => passLog = expected)

C1_Witness ==
  /\ pc = "return"
  /\ numPointLights >= 2
  /\ numSpotLights >= 1
  /\ Len(passLog) = 1 + 3 * numPointLights + numSpotLights

StencilProbes == {0, 1, StencilMod - 1}

ProbeBehind == DepthClear + 1

ProbeInFront == DepthClear - 1

\* stencil of a pixel of depth DepthClear and stencil s after one fragment
StencilAfter(g, s, facing, z) ==
  ProcessFragment(g, [depth |-> DepthClear, stencil |-> s, colour |-> {}],
                  [z |-> z, facing |-> facing, src |-> NoLight]).stencil

\* C4: with carmackReverse the shadow-volume draw is issued with the stencil
\* function ALWAYS; a back face increments the stencil (with wrap) when it fails
\* the depth test and keeps it otherwise, a front face decrements it (with
\* wrap) when it fails the depth test and keeps it otherwise.
C4_DepthFailOps ==
  pc = "directLight" /\ carmackReverse =>
    /\ PassDraws("ShadowVolume") # {}
    /\ \A c \in PassDraws("ShadowVolume") :
         /\ c.gl.stencilFunc = "ALWAYS"
         /\ c.gl.stencilOpBack = <<"KEEP", "INCR_WRAP", "KEEP">>
         /\ c.gl.stencilOpFront = <<"KEEP", "DECR_WRAP", "KEEP">>
         /\ \A s \in StencilProbes :
              /\ StencilAfter(c.gl, s, "BACK", ProbeBehind) = (s + 1) % StencilMod
              /\ StencilAfter(c.gl, s, "FRONT", ProbeBehind) = (s + StencilMod - 1) % StencilMod
              /\ StencilAfter(c.gl, s, "BACK", ProbeInFront) = s
              /\ StencilAfter(c.gl, s, "FRONT", ProbeInFront) = s

C4_Witness ==
  /\ pc = "directLight" /\ carmackReverse
  /\ PassDraws("ShadowVolume") # {}
  /\ shadow.inside = 1
  /\ px.stencil = 1

\* C5: without carmackReverse the shadow-volume draw is issued with operations
\* by which a back face decrements the stencil (with wrap) when it passes the
\* depth test and keeps it otherwise, a front face increments it (with wrap)
\* when it passes the depth test and keeps it otherwise.
C5_DepthPassOps ==
  pc = "directLight" /\ ~carmackReverse =>
    /\ PassDraws("ShadowVolume") # {}
    /\ \A c \in PassDraws("ShadowVolume") :
         /\ c.gl.stencilOpBack = <<"KEEP", "KEEP", "DECR_WRAP">>
         /\ c.gl.stencilOpFront = <<"KEEP", "KEEP", "INCR_WRAP">>
         /\ \A s \in StencilProbes :
              /\ StencilAfter(c.gl, s, "BACK", ProbeInFront) = (s + StencilMod - 1) % StencilMod
              /\ StencilAfter(c.gl, s, "FRONT", ProbeInFront) = (s + 1) % StencilMod
              /\ StencilAfter(c.gl, s, "BACK", ProbeBehind) = s
              /\ StencilAfter(c.gl, s, "FRONT", ProbeBehind) = s

C5_Witness ==
  /\ pc = "directLight" /\ ~carmackReverse
  /\ PassDraws("ShadowVolume") # {}
  /\ shadow.eyeInside
  /\ px.stencil = StencilMod - 1

\* C6: from the end of the depth prime until Draw returns the depth write is
\* disabled: every draw call of a shadow-volume, direct-light or ambient-light
\* pass is issued with the depth mask false, and the depth of the pixel stays
\* the primed depth.
C6_DepthFrozen ==
  /\ \A c \in DrawCmds : c.pass # "DepthPass" => c.gl.depthMask = FALSE
  /\ (op = "Draw" /\ pc # "idle" =>
        /\ gl.depthMask = FALSE
        /\ px.depth = primed)

C6_Witness ==
  /\ pc = "directLight" /\ ~carmackReverse
  /\ px.stencil # 0
  /\ px.depth = primed
  /\ primed < DepthClear

\* C7: the depth prime of Draw first clears colour and depth (with the depth
\* write enabled), then draws the background and then the objects, both with
\* the depth-only programs and the DepthPass tag, with the colour write
\* disabled on all four channels, the depth test enabled with LEQUAL and the
\* depth write enabled; it leaves the depth of the visible surface and no colour.
C7_DepthPrime ==
  op = "Draw" /\ Len(passLog) = 1 =>
    /\ Len(cmds) = 3
    /\ cmds[1].cmd = "clear"
    /\ cmds[1].bits = {"COLOR", "DEPTH"}
    /\ cmds[1].gl.depthMask
    /\ cmds[2].call = "DrawBackground" /\ cmds[2].program = "DefaultDepthPass"
    /\ cmds[3].call = "DrawObjects" /\ cmds[3].program = "InstancingDepthPass"
    /\ \A k \in 2..3 :
         /\ cmds[k].cmd = "draw"
         /\ cmds[k].pass = "DepthPass"
         /\ cmds[k].gl.colorMask = AllOff
         /\ cmds[k].gl.depthTest
         /\ cmds[k].gl.depthFunc = "LEQUAL"
         /\ cmds[k].gl.depthMask
    /\ (pc # "idle" => px.depth = VisibleDepth(frag))
    /\ \A t \in px.colour : t.pass # "DepthPass"

C7_Witness ==
  /\ op = "Draw" /\ Len(passLog) = 1 /\ pc # "idle"
  /\ frag.bg # NoFragment
  /\ frag.obj # NoFragment
  /\ px.depth < DepthClear
  /\ Len(cmds) = 3

\* C8: for each point light the stencil is cleared before the shadow-volume
\* pass, which so starts from stencil 0 whatever the previous light left; the shadow-volume draw is issued with face culling
\* disabled, the colour write disabled and the stencil test enabled, and face
\* culling is enabled again before the direct-light pass.
C8_ShadowVolumeSetup ==
  pc = "directLight" =>
    /\ Len(cmds) >= 2
    /\ cmds[1].cmd = "clear"
    /\ cmds[1].bits = {"STENCIL"}
    /\ \A k \in 2..Len(cmds) :
         /\ cmds[k].cmd = "draw"
         /\ cmds[k].pass = "ShadowVolume"
         /\ cmds[k].light = PointLight(li)
         /\ cmds[k].gl.cullFace = FALSE
         /\ cmds[k].gl.colorMask = AllOff
         /\ cmds[k].gl.stencilTest
    /\ gl.cullFace
    /\ shadow.cleared = 0

C8_Witness ==
  /\ pc = "directLight"
  /\ li = 1
  /\ PassTag("AmbientLight", PointLight(0)) \in px.colour
  /\ PassTag("DirectLight", PointLight(0)) \notin px.colour
  /\ shadow.inside = 0
  /\ px.stencil = 0

\* C9: the background and the object draw of a direct-light pass are issued
\* with additive blending (ADD, ONE, ONE), the colour write enabled, the
\* stencil test enabled with EQUAL, reference 0, mask 0xff, and the operations
\* KEEP, KEEP, KEEP; the pass leaves the stencil as the shadow-volume pass
\* wrote it, and blending is disabled when the pass has ended.
C9_DirectLightPass ==
  pc = "ambientLight" =>
    /\ Len(cmds) = 2
    /\ cmds[1].call = "DrawBackground"
    /\ cmds[2].call = "DrawObjects"
    /\ \A k \in 1..2 :
         /\ cmds[k].cmd = "draw"
         /\ cmds[k].pass = "DirectLight"
         /\ cmds[k].gl.blend
         /\ cmds[k].gl.blendEq = "ADD"
         /\ cmds[k].gl.blendSrc = "ONE"
         /\ cmds[k].gl.blendDst = "ONE"
         /\ cmds[k].gl.colorMask = AllOn
         /\ cmds[k].gl.stencilTest
         /\ cmds[k].gl.stencilFunc = "EQUAL"
         /\ cmds[k].gl.stencilRef = 0
         /\ cmds[k].gl.stencilMask = StencilMask
         /\ cmds[k].gl.stencilOpFront = KeepAll
         /\ cmds[k].gl.stencilOpBack = KeepAll
    /\ px.stencil = shadow.stencil
    /\ gl.blend = FALSE

C9_Witness ==
  /\ pc = "ambientLight"
  /\ li = 1
  /\ px.stencil = 0
  /\ PassTag("DirectLight", PointLight(1)) \in px.colour
  /\ PassTag("DirectLight", PointLight(0)) \in px.colour

\* the draws of the ambient-light passes are issued with the stencil test disabled
AmbientStencilTestDisabled ==
  \A c \in PassDraws("AmbientLight") : c.gl.stencilTest = FALSE

\* C10: every draw of an ambient-light pass, of a point light or of a spot
\* light, is issued with the stencil test disabled, and the pass adds the
\* ambient contribution of its light at the pixel, whatever the stencil, when a
\* surface is visible there.
C10_AmbientEverywhere ==
  /\ AmbientStencilTestDisabled
  /\ (/\ op = "Draw" /\ pc # "idle"
      /\ passLog[Len(passLog)].pass = "AmbientLight"
      /\ VisibleDepth(frag) < DepthClear
      => passLog[Len(passLog)] \in px.colour)

\* the calls of DrawBackground and DrawObjects of the pass that ran last
SceneDraws == {c \in DrawCmds : c.call \in {"DrawBackground", "DrawObjects"}}

\* C11: UpdateProgramData uploads the light terms by pass. In an ambient-light
\* pass the direct flag (fourth component of lightPosWS) is 0 and the ambient
\* intensity (fourth component of lightColor) is the alpha of the light's
\* colour; in a direct-light pass the flag is 1 and the ambient intensity 0; in
\* a depth pass no light position, view position or light colour is written;
\* in a shadow-volume pass only the light position is written.
C11_LightTermsByPass ==
  \A c \in SceneDraws :
    LET u == c.uniforms
        src == LightSource(c.light)
    IN /\ c.pass = "AmbientLight" =>
            /\ u.lightPosWS = <<[xyz |-> src.position, w |-> Float0]>>
            /\ Len(u.lightColor) = 1
            /\ u.lightColor[1].w = src.color.w
       /\ c.pass = "DirectLight" =>
            /\ u.lightPosWS = <<[xyz |-> src.position, w |-> Float1]>>
            /\ Len(u.lightColor) = 1
            /\ u.lightColor[1].w = Float0
       /\ c.pass = "DepthPass" =>
            /\ u.lightPosWS = <<>>
            /\ u.viewPosWS = <<>>
            /\ u.lightColor = <<>>
       /\ c.pass = "ShadowVolume" =>
            /\ Len(u.lightPosWS) = 1
            /\ u.lightPosWS[1].xyz = src.position
            /\ u.viewPosWS = <<>>
            /\ u.lightColor = <<>>

C11_Witness ==
  /\ op = "Draw"
  /\ pc = "ambientLight"
  /\ li = 1
  /\ \E c \in SceneDraws :
       /\ c.pass = "DirectLight"
       /\ c.call = "DrawObjects"
       /\ c.uniforms.lightPosWS[1].w = Float1
       /\ c.uniforms.lightColor[1].w = Float0
       /\ c.uniforms.lightColor[1].rgb = LightSource(PointLight(1)).color.rgb

\* the light positions and the light colours the draw call c uploaded
UploadedPositions(c) ==
  IF c.call = "Marker" THEN {c.uniforms.position[1]}
  ELSE {c.uniforms.lightPosWS[k].xyz : k \in DOMAIN c.uniforms.lightPosWS}

UploadedColors(c) ==
  IF c.call = "Marker" THEN {c.uniforms.color[1]}
  ELSE {c.uniforms.lightColor[k].rgb : k \in DOMAIN c.uniforms.lightColor}

\* the passes of the point lights before light i are all in the log before entry k
EarlierLightsFinished(k) ==
  \A i \in 0..(passLog[k].light.idx - 1) :
    \A pass \in {"ShadowVolume", "DirectLight", "AmbientLight"} :
      \E j \in 1..(k - 1) : passLog[j] = PassTag(pass, PointLight(i))

\* C12: within one Draw every draw call of the shadow-volume, direct-light and
\* ambient-light pass of point light i is handed light i and uploads no light
\* position and no light colour but those of light i, and no pass of a later
\* point light is issued before the three passes of light i are finished.
C12_OneLightAtATime ==
  op = "Draw" =>
    /\ \A k \in DOMAIN passLog :
         passLog[k].light.kind = "point" => EarlierLightsFinished(k)
    /\ LET last == passLog[Len(passLog)]
       IN last.light.kind = "point" =>
            /\ DrawCmds # {}
            /\ \A c \in DrawCmds :
                 /\ c.pass = last.pass
                 /\ c.light = last.light
                 /\ UploadedPositions(c) = {LightSource(last.light).position}
                 /\ UploadedColors(c) \subseteq {LightSource(last.light).color.rgb}
                 /\ c.pass # "ShadowVolume" =>
                      UploadedColors(c) = {LightSource(last.light).color.rgb}

C12_Witness ==
  /\ op = "Draw"
  /\ pc = "ambientLight"
  /\ li = 1
  /\ Len(passLog) = 6
  /\ \E c \in DrawCmds :
       /\ c.pass = "DirectLight"
       /\ UploadedPositions(c) = {LightSource(PointLight(1)).position}
       /\ UploadedColors(c) = {LightSource(PointLight(1)).color.rgb}

\* C13: for a spot light Draw issues no shadow-volume pass, no shadow-map
\* capture and no direct-light pass: the passes logged for a spot light, the
\* draw calls issued for it and the colour contributions it has at the pixel
\* are those of one ambient-light pass per spot light.
C13_SpotLightAmbientOnly ==
  op = "Draw" =>
    /\ \A k \in DOMAIN passLog :
         passLog[k].light.kind = "spot" =>
           /\ passLog[k].pass = "AmbientLight"
           /\ \A j \in DOMAIN passLog : passLog[j].light = passLog[k].light => j = k
    /\ \A c \in DrawCmds :
         /\ c.light.kind = "spot" => c.pass = "AmbientLight"
         /\ c.program \in {"DefaultDepthPass", "InstancingDepthPass", "InstancedShadowVolume",
                           "Default", "Instancing", "PointRendering"}
         /\ RenderPass[c.pass] # RenderPass.ShadowMap
    /\ \A t \in px.colour : t.light.kind = "spot" => t.pass = "AmbientLight"

C13_Witness ==
  /\ op = "Draw"
  /\ pc = "return"
  /\ numPointLights = 1
  /\ numSpotLights = 1
  /\ PassTag("AmbientLight", SpotLight(0)) \in px.colour
  /\ passLog[Len(passLog)] = PassTag("AmbientLight", SpotLight(0))

\* the writes of the instance buffer made by the call
InstanceWrites == {k \in DOMAIN bufferLog : bufferLog[k].buffer = "instancingBuffer"}

\* C19: while UpdateInstanceData uploads and while DrawObjects issues its
\* instanced draw, uniform-buffer slot 1 is bound to the instance buffer; when
\* either has returned slot 1 is unbound; slot 0 is bound to the transform block
\* from Init onwards, in every draw and every upload.
C19_UniformSlots ==
  /\ gl.uniformSlot1 = "none"
  /\ vao => gl.uniformSlot0 = "transformBlockUBO"
  /\ \A k \in DOMAIN cmds :
       /\ cmds[k].gl.uniformSlot0 = "transformBlockUBO"
       /\ cmds[k].gl.uniformSlot1 =
            (IF cmds[k].call = "DrawObjects" THEN "instancingBuffer" ELSE "none")
  /\ \A k \in InstanceWrites :
       /\ bufferLog[k].uniformSlot0 = "transformBlockUBO"
       /\ bufferLog[k].uniformSlot1 = "instancingBuffer"

C19_Witness ==
  /\ op = "Draw"
  /\ pc = "return"
  /\ InstanceWrites # {}
  /\ \E c \in DrawCmds : c.call = "DrawObjects" /\ c.gl.uniformSlot1 = "instancingBuffer"
  /\ \E c \in DrawCmds : c.call = "Marker" /\ c.gl.uniformSlot1 = "none"
  /\ gl.uniformSlot1 = "none"
  /\ gl.uniformSlot0 = "transformBlockUBO"

\* the four single tags of RenderPass
SingleTags ==
  {RenderPass.DepthPass, RenderPass.ShadowVolume, RenderPass.DirectLight, RenderPass.AmbientLight}

\* C14: every call of DrawBackground and DrawObjects made by Draw and by
\* DrawDepthSingleSpotLight carries a RenderPass that is exactly one of
\* DepthPass, ShadowVolume, DirectLight, AmbientLight: never a combined value
\* (LightPass, ShadowPass), never ShadowMap, never the empty mask.
C14_SingleTagPerCall ==
  op \in {"Draw", "DrawDepthSingleSpotLight"} =>
    \A c \in SceneDraws :
      /\ RenderPass[c.pass] \in SingleTags
      /\ RenderPass[c.pass] \notin {0, RenderPass.LightPass, RenderPass.ShadowPass, RenderPass.ShadowMap}
      /\ Cardinality({t \in SingleTags : BitAnd(RenderPass[c.pass], t) # 0}) = 1

C14_Witness ==
  /\ op = "DrawDepthSingleSpotLight"
  /\ pc = "frameEnd"
  /\ Cardinality(SceneDraws) = 2
  /\ \A c \in SceneDraws : c.pass = "DepthPass"
  /\ numPointLights = 2

\* the writes of the transform block made by the call
TransformWrites == {k \in DOMAIN bufferLog : bufferLog[k].buffer = "transformBlockUBO"}

\* the projection of the shadow map: 45 degrees, aspect 1024 / 1024, near 0.1, far 1000.1
LightProjection ==
  [of |-> "perspective", fovDegrees |-> 45,
   aspect |-> [width |-> 1024, height |-> 1024],
   near |-> [milli |-> 100, per |-> 1],
   far |-> [milli |-> 1000100, per |-> 1]]

\* C18: Draw writes the transform block from the camera once, before its first
\* draw call, and not again while it runs; DrawDepthSingleSpotLight(light)
\* writes it once, before the first draw call of the capture, with the look-at
\* view of that spot light (from its position towards position + direction)
\* and the fixed light projection.
C18_TransformBlockFirst ==
  /\ op = "Draw" =>
       /\ TransformWrites = {1}
       /\ bufferLog[1].draws = 0
       /\ bufferLog[1].worldToView = [of |-> "camera"]
       /\ bufferLog[1].projection = [of |-> "camera"]
  /\ op = "DrawDepthSingleSpotLight" /\ pc # "idle" =>
       LET light == SpotLight(li - 1)
       IN /\ TransformWrites = {1}
          /\ bufferLog[1].draws = 0
          /\ bufferLog[1].worldToView.of = "lookAt"
          /\ bufferLog[1].worldToView.eye = LightSource(light).position
          /\ bufferLog[1].worldToView.center =
               [sum |-> <<LightSource(light).position, [directionOf |-> light]>>]
          /\ bufferLog[1].projection = LightProjection

C18_Witness ==
  /\ op = "DrawDepthSingleSpotLight"
  /\ pc = "frameEnd"
  /\ li = 1
  /\ bufferLog[1].worldToView.eye = LightSource(SpotLight(0)).position
  /\ \E c \in SceneDraws : c.call = "DrawObjects"

\* C20: the instance buffer is written exactly once per rendered frame: when
\* renderScene has run its loops UpdateInstanceData has run once, whatever the
\* number of point lights and spot lights.
C20_OneInstanceWritePerFrame ==
  pc = "frameEnd" => frame.instanceWrites = 1

\* the writes of a frame are those of its spot-light captures, one each
FrameInstanceWrites ==
  /\ pc = "frameEnd" => frame.instanceWrites = numSpotLights
  /\ pc = "frameSpotLight" => frame.instanceWrites = li
  /\ op \in {"Draw", "DrawDepthSingleSpotLight"} => Cardinality(InstanceWrites) = 1

\* C15: a call of Init on a scene that is already initialized returns without
\* changing any state of the scene, whatever its arguments: the counts, the
\* arrays, the meshes, the buffers and the textures are those of the first
\* call, no GPU object is created, no binding and no pixel changes.
C15_InitGuard ==
  [][(vao /\ op' = "Init") =>
       \A a \in InitArgs :
         SceneInit(a[1], a[2], a[3]) => UNCHANGED <<sceneVars, objects, lights, gl, px, depthMap>>]_vars

\* Init has been called after a Draw, which only runs on an initialized scene
C15_Witness ==
  /\ op = "Init"
  /\ vao
  /\ Len(passLog) = 8
  /\ numCubes = 1 /\ numPointLights = 2 /\ numSpotLights = 1
  /\ objects = CreatedObjects(1, 2, 1)

InstancedDraws == {c \in DrawCmds : c.instances # <<>>}

\* C17 as stated: with no instance, no instanced draw call is issued in any pass
\* and UpdateInstanceData writes no entry.
C17_NoInstancedDrawCall ==
  vao /\ numCubes = 0 =>
    /\ InstancedDraws = {}
    /\ \A k \in InstanceWrites : bufferLog[k].entries = 0

\* C17, amended: with no instance, every pass still issues the instanced draw
\* call of DrawObjects, with an instance count of 0, which draws nothing;
\* UpdateInstanceData writes no entry and stays inside the buffer.
C17_ZeroInstancesDrawn ==
  vao /\ numCubes = 0 =>
    /\ \A c \in InstancedDraws : c.instances = <<0>>
    /\ (op \in {"Draw", "DrawDepthSingleSpotLight"} /\ pc # "crashed" =>
          \E c \in InstancedDraws : c.call = "DrawObjects")
    /\ frag.obj = NoFragment
    /\ \A k \in InstanceWrites :
         /\ bufferLog[k].entries = 0
         /\ bufferLog[k].entries <= bufferLog[k].capacity

C17_Witness ==
  /\ vao /\ numCubes = 0
  /\ op = "Draw"
  /\ pc = "ambientLight"
  /\ InstanceWrites # {}
  /\ \E c \in InstancedDraws : c.pass = "DirectLight" /\ c.instances = <<0>>

\* ---- claims about the Light Store ----

\* the position on the movement curve: offset + lissajous(movement, t) * scale
OnCurve(movement, t) == Vec3Add(offset, Vec3Mul(lissajous(movement, t), scale))

\* the position of the first point light: its own offset, no scaling
FirstLightOnCurve(movement, t) == Vec3Add(<<-3, 2, 0>>, lissajous(movement, t))

\* C21, as stated: each call Update(dt) sets the position of every point
\* light and every spot light to offset + lissajous(movement, t) * scale, t
\* being the animation clock, and advances the clock by dt without ever
\* decreasing it.
C21_EveryLightOnScaledCurve ==
  [][\A dt \in Dts :
       Update(dt) =>
         /\ \A j \in DOMAIN lights'.point :
              lights'.point[j].position = OnCurve(lights.point[j].movement, lights.t)
         /\ \A j \in DOMAIN lights'.spot :
              lights'.spot[j].position = OnCurve(lights.spot[j].movement, lights.t)
         /\ lights'.t = lights.t + dt
         /\ lights'.t >= lights.t]_vars

\* C21, amended: each call Update(dt) sets the position of every point light
\* but the first and of every spot light to offset + lissajous(movement, t) *
\* scale, and that of the first point light to (-3,2,0) + lissajous(movement,
\* t), t being the clock before the call; the movements are kept, the clock
\* advances by dt and does not decrease.
C21_UpdateMovesLights ==
  [][\A dt \in Dts :
       Update(dt) =>
         /\ DOMAIN lights'.point = DOMAIN lights.point
         /\ DOMAIN lights'.spot = DOMAIN lights.spot
         /\ \A j \in DOMAIN lights'.point :
              /\ lights'.point[j].movement = lights.point[j].movement
              /\ lights'.point[j].position =
                   IF j = 1 THEN FirstLightOnCurve(lights.point[j].movement, lights.t)
                   ELSE OnCurve(lights.point[j].movement, lights.t)
         /\ \A j \in DOMAIN lights'.spot :
              /\ lights'.spot[j].movement = lights.spot[j].movement
              /\ lights'.spot[j].position = OnCurve(lights.spot[j].movement, lights.t)
         /\ lights'.t = lights.t + dt
         /\ lights'.t >= lights.t]_vars

\* Update has run twice with dt = 1 in a scene of two point lights and a spot
\* light: the second point light and the spot light have left the place Init
\* gave them
C21_Witness ==
  /\ app.pc = "render"
  /\ app.calls = <<"processInput", "Update">>
  /\ app.dt = 1
  /\ lights.t = 2
  /\ Len(lights.point) = 2
  /\ Len(lights.spot) = 1
  /\ lights.point[2].position = OnCurve(lights.point[2].movement, 1)
  /\ lights.spot[1].position = OnCurve(lights.spot[1].movement, 1)
  /\ lights.spot[1].position # OnCurve(lights.spot[1].movement, 0)

\* C22: in every state reachable after Init, before or after any number of
\* Update calls, the direction of each spot light is normalize(origin -
\* position), its position being the current one.
C22_DirectionAtOrigin ==
  vao => \A j \in DOMAIN lights.spot :
           lights.spot[j].direction = normalize(Vec3Sub(origin, lights.spot[j].position))

\* the positions of the lights and the directions of the spot lights of a store
Places(L) ==
  [point |-> [j \in DOMAIN L.point |-> L.point[j].position],
   spot |-> [j \in DOMAIN L.spot |-> [position |-> L.spot[j].position,
                                      direction |-> L.spot[j].direction]]]

\* what Update is given: the movements and the clock
Trajectories(L) ==
  [t |-> L.t,
   point |-> [j \in DOMAIN L.point |-> L.point[j].movement],
   spot |-> [j \in DOMAIN L.spot |-> L.spot[j].movement]]

\* the colours and cone angles of the lights stay as Init made them
Colours(L) ==
  [point |-> [j \in DOMAIN L.point |-> L.point[j].color],
   spot |-> [j \in DOMAIN L.spot |-> L.spot[j].color]]

\* a step of mainLoop in which Scene::Update is called
UpdateCalled == app'.calls = Append(app.calls, "Update")

\* C23: Update is deterministic.  Two runs that start from the same movements
\* and the same clock and are given the same dt have the same positions and
\* spot directions after every call, whatever else differed between them; a
\* call changes nothing but the positions, the directions and the clock, and
\* issues no GPU command.
C23_UpdateDeterministic ==
  [][UpdateCalled =>
       /\ Trajectories(lights) = Trajectories(twin)
       /\ Places(lights') = Places(twin')
       /\ Trajectories(lights') = Trajectories(twin')
       /\ Colours(lights') = Colours(lights)
       /\ Trajectories(lights') = [Trajectories(lights) EXCEPT !.t = @ + app.dt]
       /\ UNCHANGED <<sceneVars, objects, renderMode, carmackReverse, gl, pixelVars, targets>>]_vars

\* Update has run in two runs whose lights had the same movements but other
\* colours and other spot directions: their places now agree and have moved
C23_Witness ==
  /\ app.calls = <<"processInput", "Update">>
  /\ app.seed # app.twinSeed
  /\ lights.t = 2
  /\ Len(lights.spot) = 1
  /\ Colours(lights) # Colours(twin)
  /\ Places(lights) = Places(twin)
  /\ lights.spot[1].position # OnCurve(lights.spot[1].movement, 0)

\* ---- claims about the main loop ----

\* C24, as stated: every iteration of mainLoop calls Scene::Update exactly
\* once, after processInput and before renderScene.
C24_UpdateEveryIteration ==
  app.pc = "loop" => app.calls = <<"processInput", "Update", "renderScene">>

\* C24, amended: an iteration of mainLoop calls Scene::Update once, after
\* processInput and before renderScene, when animate is set, and not at all
\* when it is not.
C24_UpdateWhenAnimated ==
  app.pc = "loop" =>
    app.calls = IF app.animate
                THEN <<"processInput", "Update", "renderScene">>
                ELSE <<"processInput", "renderScene">>

\* an iteration with animate set has ended, and the clock has moved
C24_Witness ==
  /\ app.pc = "loop"
  /\ app.animate
  /\ app.dt = 1
  /\ lights.t = 1
  /\ app.calls = <<"processInput", "Update", "renderScene">>

\* ---- claims about the render targets ----

\* the globals that name textures, and those that name framebuffer objects
TextureGlobals == {"renderTarget", "depthRenderMap", "depthMap", "depthCubemap"}
FramebufferGlobals == {"fboRender", "fboDepth", "fboCubeMapDepth"}

\* C25: recreating render targets leaks no handle.  Whatever resizes, F1
\* presses and frames have happened, every live texture is the one named by
\* one of renderTarget, depthRenderMap, depthMap and depthCubemap (so at most
\* one per global), every live framebuffer object is the one named by fboRender,
\* fboDepth or fboCubeMapDepth, and no create call ever had more textures alive
\* than it left behind: the old texture is deleted before the new one is
\* generated.
C25_NoLeakedHandle ==
  /\ TextureNames(targets) \subseteq {targets[h] : h \in TextureGlobals}
  /\ targets.framebuffers \subseteq {targets[h] : h \in FramebufferGlobals}
  /\ Cardinality(targets.textures) = Cardinality(TextureNames(targets))
  /\ app.pc \notin {"exit", "done"} => targets.peak <= Cardinality(targets.textures)

\* the window has been resized and a frame drawn: the four textures and the
\* three framebuffer objects are alive, the render target has the new size
C25_Witness ==
  /\ app.pc = "loop"
  /\ app.width = 1920
  /\ Cardinality(targets.textures) = 4
  /\ Cardinality(targets.framebuffers) = 3
  /\ [name |-> targets.renderTarget, size |-> <<1920, 1080>>, samples |-> 0] \in targets.textures
  /\ targets.peak = 4

\* the sizes of the images of the live textures called name
SizesOf(T, name) == {x.size : x \in {y \in T.textures : y.name = name}}

\* C26: after any resizes and F1 presses, the colour and the depth target
\* attached to the render framebuffer are the live textures renderTarget and
\* depthRenderMap and have the width and height of the window, and the resolve
\* that ends renderScene copies the rectangle (0,0)-(width, height) of the
\* render framebuffer to the same rectangle of the default framebuffer.
C26_TargetsMatchWindow ==
  /\ (targets.fboRender # 0 /\ app.pc \notin {"exit", "done"}) =>
       /\ targets.color = targets.renderTarget
       /\ targets.depth = targets.depthRenderMap
       /\ SizesOf(targets, targets.color) = {<<app.width, app.height>>}
       /\ SizesOf(targets, targets.depth) = {<<app.width, app.height>>}
  /\ app.pc = "loop" =>
       /\ app.blit.src = <<0, 0, app.width, app.height>>
       /\ app.blit.dst = app.blit.src
       /\ app.blit.read = targets.fboRender
       /\ app.blit.read # 0
       /\ app.blit.draw = 0

\* a frame has been drawn at 800x600 and the window then resized to 1920x1080
C26_Witness ==
  /\ app.pc = "poll"
  /\ app.blit.src = <<0, 0, DefaultWidth, DefaultHeight>>
  /\ app.width = 1920
  /\ app.height = 1080
  /\ SizesOf(targets, targets.depth) = {<<1920, 1080>>}
  /\ SizesOf(targets, targets.color) = {<<1920, 1080>>}

\* C27: after shutDown and the destruction of the Scene every GPU-resident
\* object the program created has been released: the two buffers of the scene
\* (instance data, transform block), its vertex array and textures, the colour
\* and depth targets of the render framebuffer, both shadow-map textures and
\* the three framebuffer objects.
C27_AllReleased ==
  app.pc = "done" =>
    /\ objects.buffers = 0
    /\ objects.vertexArrays = 0
    /\ objects.textures = 0
    /\ targets.textures = {}
    /\ targets.framebuffers = {}

\* where the program is after a call of initOpenGL, of a callback or of
\* renderScene that returned
AfterCall(at) ==
  CASE at = "main" -> "init"
    [] at = "poll" -> "poll"
    [] at = "render" -> "loop"
    [] OTHER -> "none"

\* C28: a framebuffer that is not complete is never fatal and never tried
\* again.  After every step that changes the render targets, each of the
\* three create functions would do with an incomplete framebuffer exactly what
\* it does with a complete one, except that it prints one message, and return
\* with the default framebuffer bound; a step prints at most one message per
\* create call it makes; and a step whose create call printed a message
\* leaves the program where the same step leaves it otherwise: the frame loop
\* goes on.
C28_FailureNotFatal ==
  [][(targets' # targets \/ renderMode' # renderMode) =>
     /\ targets'.bound = 0
     /\ targets'.diagnostics \in 0..2
     /\ \A size \in WindowSizes :
          LET ok == createFramebuffer(targets', size[1], size[2], renderMode'.msaaLevel, TRUE)
              ko == createFramebuffer(targets', size[1], size[2], renderMode'.msaaLevel, FALSE)
          IN ok.diagnostics = 0 /\ ko = [ok EXCEPT !.diagnostics = 1] /\ ko.bound = 0
     /\ LET ok == createDepthFramebuffer(targets', SHADOW_SIZE, SHADOW_SIZE, TRUE)
            ko == createDepthFramebuffer(targets', SHADOW_SIZE, SHADOW_SIZE, FALSE)
        IN ok.diagnostics = 0 /\ ko = [ok EXCEPT !.diagnostics = 1] /\ ko.bound = 0
     /\ LET ok == createCubeMapDepthFramebuffer(targets', SHADOW_SIZE, SHADOW_SIZE, TRUE)
            ko == createCubeMapDepthFramebuffer(targets', SHADOW_SIZE, SHADOW_SIZE, FALSE)
        IN ok.diagnostics = 0 /\ ko = [ok EXCEPT !.diagnostics = 1] /\ ko.bound = 0
     /\ (targets' # targets /\ targets'.diagnostics > 0 /\ app.pc \in {"main", "poll", "render"}) =>
          app'.pc = AfterCall(app.pc)]_vars

\* both shadow targets of a frame were incomplete, and the next iteration of
\* mainLoop is under way
C28_Witness ==
  /\ app.pc = "update"
  /\ app.calls = <<"processInput">>
  /\ app.blit.read # 0
  /\ targets.diagnostics = 2
  /\ Cardinality(targets.textures) = 4

\* ---- claims about DrawObjects ----

\* the pass tags that contain ShadowVolume
ShadowVolumeTags == {"ShadowVolume", "ShadowPass"}

\* C29: DrawObjects selects the geometry by pass.  For a pass tag that contains
\* ShadowVolume it binds the adjacency cube and draws it instanced with
\* triangle-adjacency topology, for every other tag the standard cube with
\* triangle topology; every instanced draw of a call has instance count
\* numCubes.
C29_GeometryByPass ==
  /\ \A tag \in DOMAIN RenderPass :
       ObjectsGeometry(tag) =
         IF tag \in ShadowVolumeTags
         THEN [mesh |-> "_cubeAdjacency", mode |-> "GL_TRIANGLES_ADJACENCY"]
         ELSE [mesh |-> "_cube", mode |-> "GL_TRIANGLES"]
  /\ \A c \in DrawCmds :
       c.call = "DrawObjects" =>
         /\ c.instances = <<numCubes>>
         /\ c.geometry = IF c.pass = "ShadowVolume"
                         THEN [mesh |-> "_cubeAdjacency", mode |-> "GL_TRIANGLES_ADJACENCY"]
                         ELSE [mesh |-> "_cube", mode |-> "GL_TRIANGLES"]

\* the shadow-volume pass of a scene with a cube has drawn the adjacency cube,
\* after a depth prime that drew the standard one
C29_Witness ==
  /\ op = "Draw"
  /\ numCubes = 1
  /\ Len(passLog) = 2
  /\ \E c \in DrawCmds :
       /\ c.call = "DrawObjects"
       /\ c.pass = "ShadowVolume"
       /\ c.geometry.mesh = "_cubeAdjacency"
       /\ c.instances = <<1>>

\* the marker draws among the commands of the last pass
Markers == {k \in DOMAIN cmds : cmds[k].cmd = "draw" /\ cmds[k].call = "Marker"}

\* the lights Draw loops over
SceneLights ==
  {PointLight(i) : i \in 0..(numPointLights - 1)} \cup {SpotLight(i) : i \in 0..(numSpotLights - 1)}

\* the ambient-light passes the call has issued for a light
AmbientPasses(light) ==
  {k \in DOMAIN passLog : passLog[k] = [pass |-> "AmbientLight", light |-> light]}

\* C30: the light marker, one point primitive, is drawn exactly once per light
\* per Draw, in the ambient-light pass of that light and in no other pass, and
\* blending is disabled when it is drawn.
C30_MarkerOncePerLight ==
  /\ passLog = <<>> => Markers = {}
  /\ passLog # <<>> =>
       LET last == passLog[Len(passLog)]
       IN IF last.pass = "AmbientLight"
          THEN /\ Cardinality(Markers) = 1
               /\ \A k \in Markers :
                    /\ cmds[k].light = last.light
                    /\ cmds[k].pass = "AmbientLight"
                    /\ cmds[k].geometry = [mesh |-> "_vao", mode |-> "GL_POINTS"]
                    /\ cmds[k].gl.blend = FALSE
          ELSE Markers = {}
  /\ op = "Draw" =>
       /\ \A light \in SceneLights : Cardinality(AmbientPasses(light)) <= 1
       /\ pc = "return" => \A light \in SceneLights : Cardinality(AmbientPasses(light)) = 1

\* Draw has come to the ambient pass of the second point light: its marker is
\* drawn, the marker of the first light was drawn by the pass before
C30_Witness ==
  /\ op = "Draw"
  /\ numPointLights = 2
  /\ passLog # <<>>
  /\ passLog[Len(passLog)] = [pass |-> "AmbientLight", light |-> PointLight(1)]
  /\ Cardinality(AmbientPasses(PointLight(0))) = 1
  /\ \E k \in Markers : cmds[k].light = PointLight(1) /\ cmds[k].gl.blend = FALSE

\* the texture units of the surface textures: diffuse, normal, specular, occlusion
SurfaceSlots ==
  {SamplerBinding.Diffuse, SamplerBinding.Normal, SamplerBinding.Specular, SamplerBinding.Occlusion}

\* C31: every captured shadow-map depth texture renderScene binds for the
\* lighting passes, the cube map of a point light and the 2D map of a spot
\* light, is bound at texture unit 5, the depth slot of the samplers, and
\* never at one of the units 0 to 3 of the surface textures.
C31_DepthTextureAtSlot5 ==
  \A k \in DOMAIN frame.exports :
    /\ frame.exports[k].unit = SamplerBinding.DepthMap
    /\ frame.exports[k].unit \notin SurfaceSlots

\* C32: when Draw returns, the colour write is enabled on all four channels,
\* whatever the numbers of lights; with no point light and no spot light the
\* last pass Draw ran is the depth prime, which draws with the colour write
\* disabled.
C32_ColourWriteOnReturn ==
  (op = "Draw" /\ pc = "idle") => gl.colorMask = AllOn

\* Draw has returned in a scene without lights: its only pass was the depth
\* prime, drawn with the colour write disabled
C32_Witness ==
  /\ op = "Draw" /\ pc = "idle"
  /\ numPointLights = 0 /\ numSpotLights = 0
  /\ passLog = <<[pass |-> "DepthPass", light |-> NoLight]>>
  /\ \A c \in DrawCmds : c.gl.colorMask = AllOff
  /\ DrawCmds # {}
  /\ gl.colorMask = AllOn

\* C33: every capture of DrawDepthSingleSpotLight starts from a cleared depth
\* target: its first command is a clear of the depth buffer issued with the
\* depth write enabled, so the depth map holds the cleared depth when the
\* first draw begins, whatever it held before and whatever pipeline state the
\* previous capture or frame left; the draws that follow write depth only.
C33_CaptureFromClearedDepth ==
  op = "DrawDepthSingleSpotLight" =>
    /\ Len(cmds) >= 2
    /\ cmds[1].cmd = "clear" /\ "DEPTH" \in cmds[1].bits /\ cmds[1].gl.depthMask
    /\ \A k \in 2..Len(cmds) :
         /\ cmds[k].cmd = "draw"
         /\ cmds[k].gl.colorMask = AllOff
         /\ cmds[k].gl.depthTest /\ cmds[k].gl.depthMask
    /\ depthMap.defined => depthMap.start = DepthClear

\* a capture in a frame that began with the depth write disabled (an earlier
\* capture left it so): the map was cleared and a surface was drawn into it
C33_Witness ==
  /\ op = "DrawDepthSingleSpotLight"
  /\ frame.clears # <<>> /\ ~frame.clears[1].depthMask
  /\ depthMap.defined /\ depthMap.start = DepthClear /\ depthMap.depth < DepthClear

\* C34: in a scene with at least one spot light, every depth clear renderScene
\* issues on the render framebuffer, the clear at the start of the frame and
\* the clear after the capture of each spot light, runs with the depth write
\* enabled, in the first frame and in every later one.
C34_FrameClearsResetDepth ==
  numSpotLights >= 1 =>
    \A k \in DOMAIN frame.clears :
      (frame.clears[k].site \in {"frameStart", "spotLight"} /\ "DEPTH" \in frame.clears[k].bits)
        => frame.clears[k].depthMask

\* the net face count modulo 2^8
NetFaceCount(faces) == (((faces.incr - faces.decr) % StencilMod) + StencilMod) % StencilMod

\* C35: the stencil of the pixel after a shadow-volume pass does not depend on
\* the order in which the front and back faces of the volumes are rasterized:
\* increments and decrements wrap modulo 2^8, so for either order, and for the
\* depth-fail and for the depth-pass algorithm, the stencil is the net number
\* of counted faces modulo 256, a number in which the order has no part.
C35_StencilOrderIndependent ==
  shadow.phase = "volume" =>
    /\ shadow.cleared = 0
    /\ px.stencil = NetFaceCount(shadow.faces)

\* depth-fail pass over a volume that lies behind the visible surface: its
\* front face is counted down and its back face up, so in one of the two
\* orders the decrement comes first and the stencil passes through 255
C35_Witness ==
  /\ shadow.phase = "volume" /\ carmackReverse
  /\ shadow.faces.incr = 1 /\ shadow.faces.decr = 1
  /\ shadow.cleared = 0
  /\ px.stencil = 0
  /\ StencilOpApply("INCR_WRAP", StencilOpApply("DECR_WRAP", shadow.cleared)) = px.stencil

\* C36: after Init(numCubes, numPointLights, numSpotLights) the array of cube
\* positions, the array of point lights and the array of spot lights hold
\* exactly numCubes, numPointLights and numSpotLights entries, also when a
\* count is 0.
C36_ArrayLengthsMatchCounts ==
  vao =>
    /\ objects.cubePositions = numCubes
    /\ objects.pointLights = numPointLights /\ Len(lights.point) = numPointLights
    /\ objects.spotLights = numSpotLights /\ Len(lights.spot) = numSpotLights

\* the indices ix are valid for an array of len entries
InBounds(ix, len) == ix \subseteq 0..(len - 1)

\* C37: after Init with 1 <= numCubes <= MAX_INSTANCES, numPointLights >= 1 and
\* numSpotLights >= 0, every index Update, UpdateInstanceData, Draw and
\* DrawDepthSingleSpotLight use is within the array it indexes, in every
\* frame: the lights the loops of Draw and of renderScene are at, the lights
\* of the draw calls issued, the instance entries written, and the indices of
\* Update, which leaves the lengths of the arrays as they are.
C37_IndicesInBounds ==
  (vao /\ numCubes \in 1..MAX_INSTANCES /\ numPointLights >= 1) =>
    /\ InBounds(UpdateIndices(numPointLights, numSpotLights).pointLights, Len(lights.point))
    /\ InBounds(UpdateIndices(numPointLights, numSpotLights).spotLights, Len(lights.spot))
    /\ \A dt \in Dts :
         LET after == UpdateLights(lights, numPointLights, numSpotLights, dt)
         IN Len(after.point) = Len(lights.point) /\ Len(after.spot) = Len(lights.spot)
    /\ \A k \in DOMAIN bufferLog :
         bufferLog[k].buffer = "instancingBuffer" =>
           /\ InBounds(UpdateInstanceDataIndices(bufferLog[k].entries).cubePositions, objects.cubePositions)
           /\ InBounds(UpdateInstanceDataIndices(bufferLog[k].entries).instanceData, bufferLog[k].capacity)
    /\ (pc \in {"shadowVolume", "directLight", "ambientLight"} => InBounds({li}, Len(lights.point)))
    /\ (pc = "spotLight" => InBounds({li}, Len(lights.spot)))
    /\ (pc = "frameSpotLight" => InBounds(SpotLightIndex(li), Len(lights.spot)))
    /\ \A c \in DrawCmds :
         /\ (c.light.kind = "point" => InBounds({c.light.idx}, Len(lights.point)))
         /\ (c.light.kind = "spot" => InBounds({c.light.idx}, Len(lights.spot)))

\* Draw is at the last spot light of a scene of one cube, two point lights and
\* one spot light, after the passes of the last point light
C37_Witness ==
  /\ vao /\ numCubes = 1 /\ numPointLights = 2 /\ numSpotLights = 1
  /\ op = "Draw" /\ pc = "spotLight" /\ li = Len(lights.spot) - 1
  /\ \E c \in DrawCmds : c.light = PointLight(Len(lights.point) - 1)
  /\ \E k \in DOMAIN bufferLog : bufferLog[k].buffer = "instancingBuffer" /\ bufferLog[k].entries = 1

\* the field of view within its limits
ClampFov(f) == IF f < 5 THEN 5 ELSE IF f > 179 THEN 179 ELSE f

\* C38: the field of view changes only on key-press events: a press of a
\* zoom-in key (keypad plus, '=') lowers it by one degree and a press of a
\* zoom-out key (keypad minus, '-') raises it by one degree, within [5, 179];
\* the release and the repeat events of these keys leave it as it is.
C38_FovChangesOnPressOnly ==
  [][\A key \in {"KP_ADD", "EQUAL", "KP_SUBTRACT", "MINUS"}, action \in KeyActions, complete \in BOOLEAN :
       (app.pc = "poll" /\ keyCallback(key, action, complete)) =>
         app'.fov = IF action # "PRESS" THEN app.fov
                    ELSE IF key \in {"KP_ADD", "EQUAL"} THEN ClampFov(app.fov - 1)
                    ELSE ClampFov(app.fov + 1)]_vars

====
